---- MODULE Spec2Model ----
(***************************************************************************)
(* A model of binspan: the decode combinator layer (decode.rs) and the ZIP *)
(* container parser built on it (zip.rs).                                  *)
(*                                                                         *)
(* Bytes values are views [src, off, len] over the input buffer `buf`;     *)
(* fallible operations return records whose `res` is "ok", "err" (a        *)
(* returned Error) or "panic" (the process is terminated by a Rust panic). *)
(* A closure passed to a combinator is represented by the outcome of       *)
(* running it on the arguments the combinator hands to it.                 *)
(***************************************************************************)
EXTENDS Integers, Sequences, FiniteSets, TLC

VARIABLES
    buf,      \* the input buffer (the bytes behind every Bytes view)
    force,    \* Opts.force
    inflate,  \* outcome of the external decompress_to_vec: <<>> or <<n>> bytes
    pc,       \* position of the running program
    b,        \* decode_zip's cursor `b`
    root,     \* the root Obj handed to decode_zip (its entries)
    cells,    \* the heap of Rc<LazyCell> cells allocated by Val::lazy
    eocd,     \* decode_zip's `eocd` (EndOfCentralDirRecord)
    cd,       \* decode_zip's `cd` (Vec<CentralDirRecord>)
    result,   \* decode_zip's return value / the last operation's outcome
    evald,    \* <<>> or <<v>>: the value returned by Val::eval
    cur,      \* combinator harness: the cursor operated on; TAR: the slice `d`
    node,     \* combinator harness: the entries of the Obj/Arr operated on;
              \* TAR: the items decode_tar has yielded
    last      \* combinator harness: the last call and what it returned

vars == <<buf, force, inflate, pc, b, root, cells, eocd, cd, result, evald,
          cur, node, last>>

----------------------------------------------------------------------------
(* Bounds of the model.                                                    *)

\* length of the buffer of the combinator harness
MaxLen == 4
\* most entries of an Arr/Obj of the evaluation harness
MaxWidth == 2
\* number of Lazy cells of the evaluation harness
NCells == 2
\* most entries an Obj/Arr of the combinator harness grows to
MaxKids == 2

\* The model's usize::MAX (TLC integers are 32 bit wide).
UsizeMax == 2147483647

----------------------------------------------------------------------------
(* Bytes: a cheaply cloneable view of a buffer.                            *)

Bytes(off, len) == [src |-> "in", off |-> off, len |-> len]

NoBytes == Bytes(0, 0)

\* the content of a view of the input buffer
Content(c) == [i \in 1..c.len |-> buf[c.off + i]]

\* Bytes::split_off(at): self keeps [0, at), the result is [at, len)
split_off(c, at) ==
    [keep |-> [c EXCEPT !.len = at],
     rest |-> [c EXCEPT !.off = c.off + at, !.len = c.len - at]]

\* Bytes::truncate(n): keep the first n bytes (no effect when n >= len)
truncate(c, n) == IF n < c.len THEN [c EXCEPT !.len = n] ELSE c

\* Bytes::slice(begin..end), for begin <= end <= len
slice(c, begin, end) == [c EXCEPT !.off = c.off + begin, !.len = end - begin]

\* the view `inner` lies inside the view `outer`
Within(inner, outer) ==
    /\ inner.src = outer.src
    /\ outer.off <= inner.off
    /\ inner.off + inner.len <= outer.off + outer.len

----------------------------------------------------------------------------
(* Error, Index, Meta, Val.                                                *)

IndexStr(s) == [kind |-> "Str", s |-> s, i |-> 0]
IndexInt(i) == [kind |-> "Int", s |-> "", i |-> i]

MsgExpectedBytes(n) == [kind |-> "expected_bytes", n |-> n, lit |-> <<>>]
MsgExpectedSeq(s) == [kind |-> "expected_byte_sequence", n |-> 0, lit |-> s]

Error_new(position, msg) == [position |-> position, path |-> <<>>, msg |-> msg]

with_index(e, i) == [e EXCEPT !.path = Append(@, i)]

\* the value of `err` fields when there is no error
NoErr == Error_new(NoBytes, [kind |-> "none", n |-> 0, lit |-> <<>>])

\* Meta::from(bytes); `error` is an Option: <<>> or <<e>>.  The format and
\* description of a Meta are never set by the decoders and are left out.
Meta_from(bytes) == [bytes |-> bytes, error |-> <<>>]

V0 == [tag |-> "Raw", n |-> 0, gap |-> FALSE, kids |-> <<>>, cell |-> 0]

\* Val::default()
Val_default == V0

VBool(x) == [V0 EXCEPT !.tag = "Bool", !.n = IF x THEN 1 ELSE 0]
VInt(tag, n) == [V0 EXCEPT !.tag = tag, !.n = n]
VRaw(gap) == [V0 EXCEPT !.gap = gap]
VStr(n) == [V0 EXCEPT !.tag = "Str", !.n = n]
VArr(kids) == [V0 EXCEPT !.tag = "Arr", !.kids = kids]
VObj(kids) == [V0 EXCEPT !.tag = "Obj", !.kids = kids]
VLazy(cell) == [V0 EXCEPT !.tag = "Lazy", !.cell = cell]

\* an entry of an Obj (name, Meta, Val) or of an Arr (name is "")
Entry(name, m, v) == [name |-> name, meta |-> m, val |-> v]

----------------------------------------------------------------------------
(* The byte cursor operations of decode.rs.                                *)

\* the element of a singleton set: The({e : x \in {v}}) is e with x bound
\* to v, the way `let x = v;` binds it
The(S) == CHOOSE y \in S : TRUE

try_split_off(c, at) ==
    IF at > c.len
    THEN [res |-> "err", err |-> Error_new(c, MsgExpectedBytes(at)),
          b |-> c, out |-> NoBytes]
    ELSE [res |-> "ok", err |-> NoErr,
          b |-> split_off(c, at).keep, out |-> split_off(c, at).rest]

\* core::mem::replace(left, right) on the outcome s of try_split_off: the
\* split-off suffix becomes the cursor, the prefix is returned
replace(s) == IF s.res # "ok" THEN s ELSE [s EXCEPT !.b = s.out, !.out = s.b]

\* take with the two halves exchanged
take_keep_left(left, n) == try_split_off(left, n)

\* take(left, n): `b` is the cursor left behind, `out` the returned Bytes
take(left, n) == replace(try_split_off(left, n))

\* a bound of a RangeBounds<usize>
Included(n) == [kind |-> "Included", n |-> n]
Excluded(n) == [kind |-> "Excluded", n |-> n]
Unbounded == [kind |-> "Unbounded", n |-> 0]

\* usize::checked_add(n, 1): <<>> on overflow
checked_add1(n) == IF n >= UsizeMax THEN <<>> ELSE <<n + 1>>

\* to_range(bounds, len): Ok(begin..end) or Err(n)
to_range(lo, hi, len) ==
    LET begin == CASE lo.kind = "Included" -> <<lo.n>>
                   [] lo.kind = "Excluded" -> checked_add1(lo.n)
                   [] OTHER -> <<0>>
        end == CASE hi.kind = "Included" -> checked_add1(hi.n)
                 [] hi.kind = "Excluded" -> <<hi.n>>
                 [] OTHER -> <<len>>
    IN  IF begin = <<>> THEN [res |-> "err", n |-> lo.n, begin |-> 0, end |-> 0]
        ELSE IF end = <<>> THEN [res |-> "err", n |-> hi.n, begin |-> 0, end |-> 0]
        ELSE LET max == IF begin[1] >= end[1] THEN begin[1] ELSE end[1]
             IN  IF max > len
                 THEN [res |-> "err", n |-> max, begin |-> 0, end |-> 0]
                 ELSE [res |-> "ok", n |-> 0, begin |-> begin[1], end |-> end[1]]

\* try_slice(b, range): Bytes::slice panics when range.start > range.end
try_slice(c, lo, hi) ==
    The({IF r.res = "err"
         THEN [res |-> "err", err |-> Error_new(c, MsgExpectedBytes(r.n)),
               out |-> NoBytes]
         ELSE IF r.begin > r.end
         THEN [res |-> "panic", err |-> NoErr, out |-> NoBytes]
         ELSE [res |-> "ok", err |-> NoErr, out |-> slice(c, r.begin, r.end)]
         : r \in {to_range(lo, hi, c.len)}})

\* consumed(b, f): fr is the outcome of f(b), fr.b the cursor f left behind
consumed(c, fr) ==
    IF fr.res # "ok"
    THEN [res |-> fr.res, err |-> fr.err, bytes |-> NoBytes, y |-> fr.y]
    ELSE [res |-> "ok", err |-> NoErr,
          bytes |-> truncate(c, c.len - fr.b.len), y |-> fr.y]

\* consume(b, to, f): `to` is the Meta after the call
consume(c, to, fr) ==
    IF consumed(c, fr).res # "ok"
    THEN [res |-> fr.res, err |-> fr.err, to |-> to, y |-> fr.y]
    ELSE [res |-> "ok", err |-> NoErr,
          to |-> [to EXCEPT !.bytes = consumed(c, fr).bytes], y |-> fr.y]

----------------------------------------------------------------------------
(* Primitive decoders.                                                     *)

\* $ty::from_le_bytes, on the content of a view
RECURSIVE from_le_bytes(_)
from_le_bytes(s) ==
    IF s = <<>> THEN 0 ELSE s[1] + 256 * from_le_bytes(Tail(s))

\* decode_int!($width, from_le_bytes, $ty, $val)
decode_int(c, width, tag) ==
    The({IF t.res # "ok"
         THEN [res |-> t.res, err |-> t.err, b |-> t.b,
               m |-> Meta_from(NoBytes), v |-> Val_default, y |-> 0]
         ELSE [res |-> "ok", err |-> NoErr, b |-> t.b, m |-> Meta_from(t.out),
               v |-> VInt(tag, from_le_bytes(Content(t.out))),
               y |-> from_le_bytes(Content(t.out))]
         : t \in {take(c, width)}})

u8_le(c) == decode_int(c, 1, "U8")
u16_le(c) == decode_int(c, 2, "U16")
u32_le(c) == decode_int(c, 4, "U32")
u64_le(c) == decode_int(c, 8, "U64")

\* raw(b, n); y is the Bytes taken
raw(c, n) ==
    The({IF t.res # "ok"
         THEN [res |-> t.res, err |-> t.err, b |-> t.b,
               m |-> Meta_from(NoBytes), v |-> Val_default, y |-> NoBytes]
         ELSE [res |-> "ok", err |-> NoErr, b |-> t.b,
               m |-> Meta_from(t.out), v |-> Val_default, y |-> t.out]
         : t \in {take(c, n)}})

\* precise without the `|| force` of its test
precise_ignore_force(c, s, frc) ==
    The({IF t.res # "ok"
         THEN [res |-> t.res, err |-> [t.err EXCEPT !.msg = MsgExpectedSeq(s)],
               b |-> t.b, m |-> Meta_from(NoBytes), v |-> Val_default, y |-> 0]
         ELSE IF Content(t.out) = s
         THEN [res |-> "ok", err |-> NoErr, b |-> t.b,
               m |-> Meta_from(t.out), v |-> Val_default, y |-> 0]
         ELSE [res |-> "err", err |-> Error_new(t.out, MsgExpectedSeq(s)),
               b |-> t.b, m |-> Meta_from(NoBytes), v |-> Val_default, y |-> 0]
         : t \in {take(c, Len(s))}})

\* precise(b, s, force)
precise(c, s, frc) ==
    The({IF t.res # "ok"
         THEN [res |-> t.res, err |-> [t.err EXCEPT !.msg = MsgExpectedSeq(s)],
               b |-> t.b, m |-> Meta_from(NoBytes), v |-> Val_default, y |-> 0]
         ELSE IF Content(t.out) = s \/ frc
         THEN [res |-> "ok", err |-> NoErr, b |-> t.b,
               m |-> Meta_from(t.out), v |-> Val_default, y |-> 0]
         ELSE [res |-> "err", err |-> Error_new(t.out, MsgExpectedSeq(s)),
               b |-> t.b, m |-> Meta_from(NoBytes), v |-> Val_default, y |-> 0]
         : t \in {take(c, Len(s))}})

----------------------------------------------------------------------------
(* The builders Obj::add_mut, Obj::add, Arr::add_mut.                      *)
(* fr is the outcome of the closure f on the placeholder's (Meta, Val):    *)
(* fr.m and fr.v are what f left in them, fr.res/err/y what it returned.   *)

\* the sequence s with its last element replaced by e
SetLast(s, e) == [s EXCEPT ![Len(s)] = e]

\* Obj::add_mut without the recording done in map_err
Obj_add_mut_no_record(o, field, m, fr) ==
    [o |-> Append(o, Entry(field, fr.m, fr.v)),
     res |-> fr.res,
     err |-> IF fr.res = "err" THEN with_index(fr.err, IndexStr(field)) ELSE fr.err,
     y |-> fr.y]

Obj_add_mut(o, field, m, fr) ==
    LET pushed == Append(o, Entry(field, m, Val_default))
        after == SetLast(pushed, Entry(field, fr.m, fr.v))
    IN  IF fr.res = "err"
        THEN [o |-> SetLast(after, Entry(field,
                        [fr.m EXCEPT !.error = <<fr.err>>], fr.v)),
              res |-> "err",
              err |-> with_index(fr.err, IndexStr(field)),
              y |-> fr.y]
        ELSE [o |-> after, res |-> fr.res, err |-> fr.err, y |-> fr.y]

\* Obj::add(field, r): r is a Result<Decoded<T>>
Obj_add(o, field, r) ==
    IF r.res = "err"
    THEN [o |-> o, res |-> "err",
          err |-> with_index(r.err, IndexStr(field)), y |-> r.y]
    ELSE IF r.res = "panic"
    THEN [o |-> o, res |-> "panic", err |-> r.err, y |-> r.y]
    ELSE [o |-> Append(o, Entry(field, r.m, r.v)),
          res |-> "ok", err |-> NoErr, y |-> r.y]

Arr_add_mut(a, m, fr) ==
    LET i == Len(a)
        pushed == Append(a, Entry("", m, Val_default))
        after == SetLast(pushed, Entry("", fr.m, fr.v))
    IN  IF fr.res = "err"
        THEN [o |-> SetLast(after, Entry("",
                        [fr.m EXCEPT !.error = <<fr.err>>], fr.v)),
              res |-> "err",
              err |-> with_index(fr.err, IndexInt(i)),
              y |-> fr.y]
        ELSE [o |-> after, res |-> fr.res, err |-> fr.err, y |-> fr.y]

\* the closure of add_consumed, |m, v| consume(b, m, |b| f(b, v)), run on
\* the placeholder: gr is the outcome of f(b, v), with gr.v what it left in v
consume_closure(c, m, gr) ==
    The({[m |-> r.to, v |-> gr.v, res |-> r.res, err |-> r.err, y |-> r.y]
         : r \in {consume(c, m, gr)}})

Obj_add_consumed(o, field, c, gr) ==
    Obj_add_mut(o, field, Meta_from(c), consume_closure(c, Meta_from(c), gr))

Arr_add_consumed(a, c, gr) ==
    Arr_add_mut(a, Meta_from(c), consume_closure(c, Meta_from(c), gr))

----------------------------------------------------------------------------
(* Lazy values: Val::Lazy holds an Rc<LazyCell<Val, Box<dyn FnOnce>>>.     *)
(* A cell of the heap is [init, thunk, val, runs]: `init` is the state of  *)
(* the LazyCell, `thunk` the closure's captured data, `val` the memoised   *)
(* value once init, `runs` counts how often the closure was called.        *)

NoThunk ==
    [kind |-> "const", meta |-> Meta_from(NoBytes), u |-> 0,
     bytes |-> NoBytes, method |-> 0, kids |-> <<>>, val |-> V0]

\* Val::lazy(f): a fresh cell holding the closure; `v` is the Lazy value
Val_lazy(h, thunk) ==
    [h |-> Append(h, [init |-> FALSE, thunk |-> thunk, val |-> V0, runs |-> 0]),
     v |-> VLazy(Len(h) + 1)]

\* the named flags of `bitflags! struct Flags: u16` and their bits
FlagsNames ==
    <<"encrypted", "compression1", "compression0", "data_descriptor",
      "enhanced_deflation", "compressed_patched_data", "strong_encryption",
      "language_encoding", "mask_header_values">>
FlagsBits == <<0, 1, 2, 3, 4, 5, 6, 11, 13>>

\* the named flags of `bitflags! struct Timestamp: u8` and their bits
TimestampNames ==
    <<"modification_time_present", "access_time_present",
      "creation_time_present">>
TimestampBits == <<0, 1, 2>>

\* $flags.contains(flag), flag the single bit k
contains(u, k) == (u \div (2 ^ k)) % 2 = 1

\* flags_obj!(meta, flags, ty): one Bool per named flag, each with `meta`
flags_obj(meta, u, names, bits) ==
    VObj([i \in 1..Len(names) |->
            Entry(names[i], meta, VBool(contains(u, bits[i])))])

\* the compression methods with a special case in uncompress
Method_none == 0
Method_deflated == 8

\* enum CompressionMethod: the values from_u16 recognises
CompressionMethods == {0, 1, 2, 3, 4, 5, 6, 8, 9, 10, 12, 14, 18, 19, 98}

\* miniz_oxide's decompress_to_vec(b).ok().map(Bytes::from), an external
\* function: None, or a fresh buffer of inflate[1] bytes
decompress_to_vec(c) ==
    IF inflate = <<>> THEN <<>>
    ELSE <<[src |-> "inflated", off |-> 0, len |-> inflate[1]]>>

\* uncompress without the arm for CompressionMethod::none
uncompress_no_store(c, method) ==
    LET uc == CASE method = Method_deflated -> decompress_to_vec(c)
                [] OTHER -> <<>>
    IN  VObj([i \in 1..Len(uc) |->
                Entry("uncompressed", Meta_from(uc[i]), Val_default)])

\* uncompress(b, method)
uncompress(c, method) ==
    LET uc == CASE method = Method_deflated -> decompress_to_vec(c)
                [] method = Method_none -> <<c>>
                [] OTHER -> <<>>
    IN  VObj([i \in 1..Len(uc) |->
                Entry("uncompressed", Meta_from(uc[i]), Val_default)])

\* calling the closure held by a cell
RunThunk(th) ==
    CASE th.kind = "flags_Flags" ->
            flags_obj(th.meta, th.u, FlagsNames, FlagsBits)
      [] th.kind = "flags_Timestamp" ->
            flags_obj(th.meta, th.u, TimestampNames, TimestampBits)
      [] th.kind = "td" ->
            VObj([i \in 1..Len(th.kids) |->
                    Entry(th.kids[i].name, Meta_from(th.bytes), th.kids[i].val)])
      [] th.kind = "uncompress" -> uncompress(th.bytes, th.method)
      [] OTHER -> th.val

\* a force that calls the closure again on an initialised cell
LazyCell_force_rerun(h, id) ==
    [h EXCEPT ![id] = [init |-> TRUE, thunk |-> h[id].thunk,
                       val |-> RunThunk(h[id].thunk), runs |-> h[id].runs + 1]]

\* LazyCell::force: run the closure on first use, then keep its value
LazyCell_force(h, id) ==
    IF h[id].init THEN h
    ELSE [h EXCEPT ![id] = [init |-> TRUE, thunk |-> h[id].thunk,
                            val |-> RunThunk(h[id].thunk), runs |-> h[id].runs + 1]]

RECURSIVE Val_eval(_, _)
RECURSIVE eval_entries(_, _)
RECURSIVE Val_eval_shallow(_, _)

\* the closures fo / fa of Val::eval mapped over the entries, in order
eval_entries(kids, h) ==
    IF kids = <<>> THEN [kids |-> <<>>, h |-> h]
    ELSE LET r == Val_eval(kids[1].val, h)
             rest == eval_entries(Tail(kids), r.h)
         IN  [kids |-> <<Entry(kids[1].name, kids[1].meta, r.v)>> \o rest.kids,
              h |-> rest.h]

\* an eval that forces a Lazy node but does not evaluate the forced value
Val_eval_shallow(v, h) ==
    CASE v.tag = "Lazy" ->
            LET h1 == LazyCell_force(h, v.cell)
            IN  [v |-> h1[v.cell].val, h |-> h1]
      [] v.tag \in {"Arr", "Obj"} ->
            LET r == eval_entries(v.kids, h)
            IN  [v |-> [v EXCEPT !.kids = r.kids], h |-> r.h]
      [] OTHER -> [v |-> v, h |-> h]

\* Val::eval(&self): `v` is the value returned, `h` the heap afterwards
Val_eval(v, h) ==
    CASE v.tag = "Lazy" ->
            LET h1 == LazyCell_force(h, v.cell)
            IN  Val_eval(h1[v.cell].val, h1)
      [] v.tag \in {"Arr", "Obj"} ->
            LET r == eval_entries(v.kids, h)
            IN  [v |-> [v EXCEPT !.kids = r.kids], h |-> r.h]
      [] OTHER -> [v |-> v, h |-> h]

\* #[derive(Clone)] for Val: a Lazy clones its Rc, so the clone shares the cell
Val_clone(v, h) == [v |-> v, h |-> h]

----------------------------------------------------------------------------
(* The ZIP decoder (zip.rs).  A decoder works on a record                  *)
(*   d = [o, b, h, res, err, y]:                                           *)
(* the entries of the Obj it fills, its cursor, the heap of Lazy cells,    *)
(* and what it returned (res, err, y).  Once d.res is not "ok" the later   *)
(* statements of a decoder are skipped, as by the `?` operator.            *)

CENTRAL_DIR_SIG == <<80, 75, 1, 2>>
LOCAL_FILE_SIG == <<80, 75, 3, 4>>
END_OF_CENTRAL_DIR_SIG == <<80, 75, 5, 6>>
END_OF_CENTRAL_DIR_64_SIG == <<80, 75, 6, 6>>
END_OF_CENTRAL_DIR_LOCATOR_SIG == <<80, 75, 6, 7>>
DATA_INDICATOR_SIG == <<80, 75, 7, 8>>

\* the `len` decode_eocds passes to find for the EOCD and for its locator
EocdSearchLen == 65558
EocdlSearchLen == 20
\* FIXED_FIELD_SIZE of decode_eocd64
FIXED_FIELD_SIZE == 44
\* the extra-field tags decode_extra_field dispatches on
TagZip64 == 1
TagExtendedTimestamp == 21589

\* no let-binding made yet
NoEnv == [k \in {} |-> 0]

\* a decoder at work: the Obj `o` it fills, its cursor `b`, the heap `h` of
\* lazy cells, its outcome so far (res, err), the values `env` its
\* let-bindings hold, by name, and its return value `y`
Decoder(o, c, h) ==
    [o |-> o, b |-> c, h |-> h, res |-> "ok", err |-> NoErr, env |-> NoEnv,
     y |-> 0]

\* the decoder after a statement `let field = o.add..(field, ..)?` whose
\* builder outcome is a, with the cursor at c and the heap h
After(d, field, a, c, h) ==
    [o |-> a.o, b |-> c, h |-> h, res |-> a.res, err |-> a.err,
     env |-> IF a.res = "ok" THEN (field :> a.y) @@ d.env ELSE d.env,
     y |-> d.y]

\* the decoder after `r?` failed outside a builder: no breadcrumb is pushed
Fail(d, r) == [d EXCEPT !.res = r.res, !.err = r.err]

\* the statement `let name = decode_x(o, b)?` once decode_x returned in d
Let(d, name) ==
    IF d.res # "ok" THEN d ELSE [d EXCEPT !.env = (name :> d.y) @@ d.env]

\* a decoder's `Ok(name)`
Return(d, name) == IF d.res # "ok" THEN d ELSE [d EXCEPT !.y = d.env[name]]

\* the statement `o.add(field, r)?`, r a primitive decoder run on d.b
Add(d, field, r) ==
    IF d.res # "ok" THEN d
    ELSE After(d, field, Obj_add(d.o, field, r), r.b, d.h)

AddU16(d, field) == Add(d, field, u16_le(d.b))
AddU32(d, field) == Add(d, field, u32_le(d.b))
AddU64(d, field) == Add(d, field, u64_le(d.b))
\* o.add with precise called as if opts.force were set
AddPrecise_forced(d, field, s, frc) == Add(d, field, precise(d.b, s, TRUE))

AddPrecise(d, field, s, frc) == Add(d, field, precise(d.b, s, frc))

\* `o.add(field, raw(b, n.into()))?` with n the value bound to len
AddRaw(d, field, len) == Add(d, field, raw(d.b, d.env[len]))

\* the outcome of a closure |b| decode_x(v.make_obj(), b), g being decode_x's
AsObj(g) ==
    [b |-> g.b, v |-> VObj(g.o), res |-> g.res, err |-> g.err, y |-> g.y]

\* the statement `o.add_consumed(field, b, |b, v| decode_x(v.make_obj(), b))?`
\* or its add_mut / consume spelling, g being decode_x's outcome on
\* Decoder(<<>>, d.b, d.h)
AddConsumedObj(d, field, g) ==
    IF d.res # "ok" THEN d
    ELSE After(d, field, Obj_add_consumed(d.o, field, d.b, AsObj(g)), g.b, g.h)

\* `a.add_mut(Meta::from(&b), |m, v| consume(&mut b, m, |b|
\*     decode_x(v.make_obj(), b)))`, g being decode_x's outcome on c; the
\* outcome holds the builder's result and the cursor and heap g left behind
ArrAddObj(a, c, g) ==
    The({[o |-> r.o, b |-> g.b, h |-> g.h, res |-> r.res, err |-> r.err,
          y |-> r.y] : r \in {Arr_add_consumed(a, c, AsObj(g))}})

\* `o.add_mut(field, Meta::from(&slice), |_, v| decode_x(v.make_obj(), ..))`:
\* the closure leaves the Meta alone
AddMutObj(o, field, c, g) ==
    The({[o |-> r.o, b |-> g.b, h |-> g.h, res |-> r.res, err |-> r.err,
          y |-> r.y]
         : r \in {Obj_add_mut(o, field, Meta_from(c),
                      [m |-> Meta_from(c), v |-> VObj(g.o), res |-> g.res,
                       err |-> g.err, y |-> g.y])}})

\* `o.add_mut(field, Meta::from(&slice), |_, v| { let a = v.make_arr(); .. })`,
\* loop being the outcome of the closure's body
AddMutArr(o, field, c, loop) ==
    The({[o |-> r.o, b |-> loop.b, h |-> loop.h, res |-> r.res,
          err |-> r.err, y |-> r.y]
         : r \in {Obj_add_mut(o, field, Meta_from(c),
                      [m |-> Meta_from(c), v |-> VArr(loop.o),
                       res |-> loop.res, err |-> loop.err, y |-> loop.y])}})

\* decode_eocd_common(o, b, zip64)
decode_eocd_common(d, zip64) ==
    LET small(x, field) == IF zip64 THEN AddU32(x, field) ELSE AddU16(x, field)
        large(x, field) == IF zip64 THEN AddU64(x, field) ELSE AddU32(x, field)
        d1 == small(d, "disk_nr")
        d2 == small(d1, "start_disk_nr")
        d3 == small(d2, "nr_of_central_dir_records_on_disk")
        d4 == small(d3, "nr_of_central_dir_records")
        d5 == large(d4, "size_of_central_dir")
        d6 == large(d5, "offset_of_start_of_central_dir")
    IN  \* Ok(EndOfCentralDirRecord { disk_nr, size_cd, offset_cd })
        The({IF x.res # "ok" THEN x
             ELSE [x EXCEPT !.y =
                     [disk_nr |-> x.env["disk_nr"],
                      size_cd |-> x.env["size_of_central_dir"],
                      offset_cd |-> x.env["offset_of_start_of_central_dir"]]]
             : x \in {d6}})

\* decode_eocd(o, b, opts)
decode_eocd(d, frc) ==
    LET d1 == AddPrecise(d, "signature", END_OF_CENTRAL_DIR_SIG, frc)
        d2 == Let(decode_eocd_common(d1, FALSE), "eocdr")
        d3 == AddU16(d2, "comment_length")
        d4 == AddRaw(d3, "comment", "comment_length")
    IN  Return(d4, "eocdr")

\* decode_extensible_data(o, b)
decode_extensible_data(d) ==
    LET d1 == AddU16(d, "tag")
        d2 == AddU16(d1, "size")
    IN  AddRaw(d2, "data", "size")

\* the `while !b.is_empty()` loop of decode_eocd64 filling the Arr `a`
RECURSIVE extensible_data_loop(_, _, _)
extensible_data_loop(a, c, h) ==
    IF c.len = 0
    THEN [o |-> a, b |-> c, h |-> h, res |-> "ok", err |-> NoErr, y |-> 0]
    ELSE The({IF s.res # "ok" THEN s
              ELSE extensible_data_loop(s.o, s.b, s.h)
              : s \in {ArrAddObj(a, c,
                           decode_extensible_data(Decoder(<<>>, c, h)))}})

\* decode_eocd64(o, b, opts)
decode_eocd64(d, frc) ==
    LET d1 == AddPrecise(d, "signature", END_OF_CENTRAL_DIR_64_SIG, frc)
        d2 == AddU64(d1, "size_of_end_of_central_directory")
        d3 == AddU16(d2, "version_made_by")
        d4 == AddU16(d3, "version_needed")
        d5 == Let(decode_eocd_common(d4, TRUE), "eocdr")
        \* size_eocd.checked_sub(FIXED_FIELD_SIZE) .. .unwrap(), then
        \* take(b, rest)? with outcome t, then o.add_mut("extensible_data",
        \* Meta::from(&b), ..)? with the loop as its closure
        d6 == The({
            IF x.res # "ok" THEN x
            ELSE IF x.env["size_of_end_of_central_directory"] < FIXED_FIELD_SIZE
            THEN [x EXCEPT !.res = "panic"]
            ELSE The({
                IF t.res # "ok" THEN Fail(x, t)
                ELSE The({
                    After(x, "extensible_data",
                          Obj_add_mut(x.o, "extensible_data", Meta_from(t.out),
                              [m |-> Meta_from(t.out), v |-> VArr(loop.o),
                               res |-> loop.res, err |-> loop.err, y |-> 0]),
                          t.b, loop.h)
                    : loop \in {extensible_data_loop(<<>>, t.out, x.h)}})
                : t \in {take(x.b, x.env["size_of_end_of_central_directory"]
                                   - FIXED_FIELD_SIZE)}})
            : x \in {d5}})
    IN  Return(d6, "eocdr")

\* decode_eocdl(o, b, opts)
decode_eocdl(d, frc) ==
    LET d1 == AddPrecise(d, "signature", END_OF_CENTRAL_DIR_LOCATOR_SIG, frc)
        d2 == AddU32(d1, "disk_nr")
        d3 == AddU64(d2, "offset_of_end_of_central_dir_record")
        d4 == AddU32(d3, "total_disk_nr")
    IN  Return(d4, "offset_of_end_of_central_dir_record")

\* the statement `o.add("flags", Ok(lazy_flags!(int(b)?, $ty)))?`: a failure
\* of the integer decoder r returns before o.add, without a breadcrumb; l is
\* the fresh Lazy
add_lazy_flags(d, r, ty) ==
    IF d.res # "ok" THEN d
    ELSE IF r.res # "ok" THEN Fail(d, r)
    ELSE The({After(d, "flags", Obj_add(d.o, "flags", [r EXCEPT !.v = l.v]),
                    r.b, l.h)
              : l \in {Val_lazy(d.h, [NoThunk EXCEPT !.kind = ty,
                                          !.meta = r.m, !.u = r.y])}})

\* mask(u, offset, width)
mask(u, offset, width) == (u \div (2 ^ offset)) % (2 ^ width)

\* the closures decode_time_date passes to decode_td: the three entries
time_entries(time) ==
    <<Entry("second", Meta_from(NoBytes), VInt("U8", mask(time, 0, 5) * 2)),
      Entry("minute", Meta_from(NoBytes), VInt("U8", mask(time, 5, 6))),
      Entry("hour", Meta_from(NoBytes), VInt("U8", mask(time, 11, 5)))>>

date_entries(date) ==
    <<Entry("day", Meta_from(NoBytes), VInt("U8", mask(date, 0, 5))),
      Entry("month", Meta_from(NoBytes), VInt("U8", mask(date, 5, 4))),
      Entry("year", Meta_from(NoBytes), VInt("U16", mask(date, 9, 7) + 1980))>>

\* decode_td(b, f): r is the outcome of u16_le(b), l the fresh Lazy whose
\* entries are f applied to the integer
decode_td(c, h, isTime) ==
    The({IF r.res # "ok"
         THEN [res |-> r.res, err |-> r.err, b |-> r.b, h |-> h,
               m |-> r.m, v |-> r.v, y |-> 0]
         ELSE The({[res |-> "ok", err |-> NoErr, b |-> r.b, h |-> l.h,
                    m |-> r.m, v |-> l.v, y |-> r.y]
                   : l \in {Val_lazy(h,
                       [NoThunk EXCEPT !.kind = "td", !.bytes = r.m.bytes,
                                       !.kids = IF isTime THEN time_entries(r.y)
                                                ELSE date_entries(r.y)])}})
         : r \in {u16_le(c)}})

\* decode_time_date(o, b): both fields are decoded before either is added
decode_time_date(d) ==
    IF d.res # "ok" THEN d
    ELSE The({The({Add(Add([d EXCEPT !.h = date.h], "fat_time",
                           [time EXCEPT !.b = date.b]),
                       "fat_date", date)
                   : date \in {decode_td(time.b, time.h, FALSE)}})
              : time \in {decode_td(d.b, d.h, TRUE)}})

\* decode_extended_timestamp(o, b)
decode_extended_timestamp(d) ==
    LET time(x, key, k) ==
            IF x.res = "ok" /\ contains(x.env["flags"], k) /\ x.b.len # 0
            THEN AddU32(x, key) ELSE x
        d1 == add_lazy_flags(d, u8_le(d.b), "flags_Timestamp")
        d2 == time(d1, "modification_time", 0)
        d3 == time(d2, "access_time", 1)
    IN  time(d3, "creation_time", 2)

\* Zip64::default()
Zip64_default ==
    [uncompressed_size |-> <<>>, compressed_size |-> <<>>,
     local_file_offset |-> <<>>, disk_nr_start |-> <<>>]

\* decode_zip64(o, b); an Option is written <<>> (None) or <<x>> (Some(x)),
\* and a field is Some when its statement ran
decode_zip64(d) ==
    LET more64(x, field) ==
            IF x.res = "ok" /\ x.b.len # 0 THEN AddU64(x, field) ELSE x
        more32(x, field) ==
            IF x.res = "ok" /\ x.b.len # 0 THEN AddU32(x, field) ELSE x
        d1 == more64(d, "uncompressed_size")
        d2 == more64(d1, "compressed_size")
        d3 == more64(d2, "local_file_offset")
        d4 == more32(d3, "disk_nr_start")
    IN  The({IF x.res # "ok" THEN x
             ELSE [x EXCEPT !.y =
                     [k \in DOMAIN Zip64_default |->
                         IF k \in DOMAIN x.env THEN <<x.env[k]>> ELSE <<>>]]
             : x \in {d4}})

\* decode_common(o, b)
decode_common(d) ==
    LET d1 == add_lazy_flags(d, u16_le(d.b), "flags_Flags")
        d2 == AddU16(d1, "compression_method")
        \* o.add_mut("last_modification", Meta::from(&*b), |lm_meta, lm|
        \*     consume(b, lm_meta, |b| decode_time_date(lm.make_obj(), b)))?
        d3 == The({AddConsumedObj(x, "last_modification",
                       decode_time_date(Decoder(<<>>, x.b, x.h)))
                   : x \in {d2}})
        d4 == AddU32(d3, "crc_32")
        d5 == AddU32(d4, "compressed_size")
        d6 == AddU32(d5, "uncompressed_size")
        d7 == AddU16(d6, "file_name_length")
        d8 == AddU16(d7, "extra_field_length")
    IN  \* Ok(Common { .. })
        The({IF x.res # "ok" THEN x
             ELSE [x EXCEPT !.y =
                     [flags |-> x.env["flags"],
                      compression_method |-> x.env["compression_method"],
                      compressed_size |-> x.env["compressed_size"],
                      filename_len |-> x.env["file_name_length"],
                      extra_field_len |-> x.env["extra_field_length"]]]
             : x \in {d8}})

\* decode_extra_field(o, b): y is an Option<Zip64>
decode_extra_field(d) ==
    LET d1 == AddU16(d, "tag")
        d2 == AddU16(d1, "size")
        \* let (meta, v, mut b) = raw(b, size.into())? with outcome r, then
        \* o.add_mut("data", meta, |_, d| match tag { .. }), g the outcome
        \* of the decoder the tag selects, run on the field's bytes
        d3 == The({
            IF x.res # "ok" THEN x
            ELSE The({
                IF r.res # "ok" THEN Fail(x, r)
                ELSE The({
                    After(x, "data",
                          Obj_add_mut(x.o, "data", r.m,
                              [m |-> r.m,
                               v |-> IF x.env["tag"] \in
                                        {TagZip64, TagExtendedTimestamp}
                                     THEN VObj(g.o) ELSE r.v,
                               res |-> g.res, err |-> g.err,
                               y |-> IF x.env["tag"] = TagZip64
                                     THEN <<g.y>> ELSE <<>>]),
                          r.b, g.h)
                    : g \in {CASE x.env["tag"] = TagZip64 ->
                                    decode_zip64(Decoder(<<>>, r.y, x.h))
                               [] x.env["tag"] = TagExtendedTimestamp ->
                                    decode_extended_timestamp(
                                        Decoder(<<>>, r.y, x.h))
                               [] OTHER -> Decoder(<<>>, r.y, x.h)}})
                : r \in {raw(x.b, x.env["size"])}})
            : x \in {d2}})
    IN  Return(d3, "data")

\* decode_extra_fields(a, b): the loop, zip64 the record found so far; a
\* turn ends with `zip64 = y.unwrap_or(zip64)`
RECURSIVE decode_extra_fields(_, _, _, _)
decode_extra_fields(a, c, h, zip64) ==
    IF c.len = 0
    THEN [o |-> a, b |-> c, h |-> h, res |-> "ok", err |-> NoErr, y |-> zip64]
    ELSE The({IF s.res # "ok" THEN [s EXCEPT !.y = zip64]
              ELSE decode_extra_fields(s.o, s.b, s.h,
                       IF s.y = <<>> THEN zip64 ELSE s.y[1])
              : s \in {ArrAddObj(a, c,
                           decode_extra_field(Decoder(<<>>, c, h)))}})

\* decode_name_and_fields(o, b, common), common the name the Common is
\* bound to: x is the decoder after o.add("file_name", ..)?, t the outcome
\* of take(b, common.extra_field_len.into())? and efs that of the closure
\* of o.add_mut("extra_fields", Meta::from(&efs_slice), ..)
decode_name_and_fields(d, common) ==
    The({
        IF x.res # "ok" THEN x
        ELSE The({
            IF t.res # "ok" THEN Fail(x, t)
            ELSE The({
                Return(After(x, "extra_fields",
                             Obj_add_mut(x.o, "extra_fields", Meta_from(t.out),
                                 [m |-> Meta_from(t.out), v |-> VArr(efs.o),
                                  res |-> efs.res, err |-> efs.err,
                                  y |-> efs.y]),
                             t.b, efs.h),
                       "extra_fields")
                : efs \in {decode_extra_fields(<<>>, t.out, x.h,
                                               Zip64_default)}})
            : t \in {take(x.b, x.env[common].extra_field_len)}})
        : x \in {Add(d, "file_name", raw(d.b, d.env[common].filename_len))}})

\* Option::unwrap_or
\* Option::unwrap_or that ignores the Option
unwrap_or_default_only(opt, x) == x

unwrap_or(opt, x) == IF opt = <<>> THEN x ELSE opt[1]

\* decode_cdr(o, b, opts)
decode_cdr(d, frc) ==
    LET d1 == AddPrecise(d, "signature", CENTRAL_DIR_SIG, frc)
        d2 == AddU16(d1, "version_made_by")
        d3 == AddU16(d2, "version_needed")
        d4 == Let(decode_common(d3), "common")
        d5 == AddU16(d4, "file_comment_length")
        d6 == AddU16(d5, "disk_number_where_file_starts")
        d7 == AddU16(d6, "internal_file_attributes")
        d8 == AddU32(d7, "external_file_attributes")
        d9 == AddU32(d8, "relative_offset_of_local_file_header")
        d10 == Let(decode_name_and_fields(d9, "common"), "zip64")
        d11 == AddRaw(d10, "file_comment", "file_comment_length")
    IN  \* Ok(CentralDirRecord { .. })
        The({IF x.res # "ok" THEN x
             ELSE [x EXCEPT !.y =
                     [common |-> x.env["common"],
                      disk_nr_start |->
                          unwrap_or(x.env["zip64"].disk_nr_start,
                                    x.env["disk_number_where_file_starts"]),
                      local_file_offset |->
                          unwrap_or(x.env["zip64"].local_file_offset,
                              x.env["relative_offset_of_local_file_header"])]]
             : x \in {d11}})

\* Bytes::starts_with(s)
starts_with(c, s) ==
    c.len >= Len(s) /\ \A i \in 1..Len(s) : buf[c.off + i] = s[i]

\* decode_data_indicator(o, b)
decode_data_indicator(d) ==
    LET d1 == IF d.res = "ok" /\ starts_with(d.b, DATA_INDICATOR_SIG)
              THEN AddPrecise(d, "signature", DATA_INDICATOR_SIG, TRUE)
              ELSE d
        d2 == AddU32(d1, "crc32_uncompressed")
        d3 == AddU32(d2, "compressed_size")
    IN  AddU32(d3, "uncompressed_size")

\* decode_local_file(o, b, opts, cdr_common)
decode_local_file(d, frc, cdr_common) ==
    LET d1 == AddPrecise(d, "signature", LOCAL_FILE_SIG, frc)
        d2 == AddU16(d1, "version_needed")
        d3 == Let(decode_common(d2), "lf_common")
        d4 == Let(decode_name_and_fields(d3, "lf_common"), "zip64")
        \* let compressed_size = match .. { 0 => .., s => s };
        \* if compressed_size > 0 { .. }: r is the outcome of raw, and the
        \* Val is a Lazy l only for a known method (method.map_or)
        d5 == The({
            IF x.res # "ok" THEN x
            ELSE The({
                IF compressed_size = 0 THEN x
                ELSE The({
                    IF r.res # "ok" THEN Fail(x, r)
                    ELSE IF x.env["lf_common"].compression_method
                            \in CompressionMethods
                    THEN The({
                        After(x, "compressed",
                              Obj_add(x.o, "compressed", [r EXCEPT !.v = l.v]),
                              r.b, l.h)
                        : l \in {Val_lazy(x.h, [NoThunk EXCEPT
                                   !.kind = "uncompress", !.bytes = r.y,
                                   !.method =
                                     x.env["lf_common"].compression_method])}})
                    ELSE After(x, "compressed",
                               Obj_add(x.o, "compressed", r), r.b, x.h)
                    : r \in {raw(x.b, compressed_size)}})
                : compressed_size \in {The({
                    IF s = 0 THEN cdr_common.compressed_size ELSE s
                    : s \in {unwrap_or(x.env["zip64"].compressed_size,
                                 x.env["lf_common"].compressed_size)}})}})
            : x \in {d4}})
        \* if lf_common.flags.contains(Flags::data_descriptor) { .. }
        d6 == The({
            IF x.res = "ok" /\ contains(x.env["lf_common"].flags, 3)
            THEN AddConsumedObj(x, "data_indicator",
                                decode_data_indicator(Decoder(<<>>, x.b, x.h)))
            ELSE x
            : x \in {d5}})
    IN  d6

\* find(b, sig, len): the windows of 4 bytes from the last one backwards,
\* the first len - 3 of them; <<>> or <<offset of the first match>>
find(c, sig, len) ==
    LET nwin == IF c.len >= 4 THEN c.len - 3 ELSE 0
        ntake == IF len - 3 < nwin THEN len - 3 ELSE nwin
        hits == {i \in 0..(ntake - 1) :
                    \A k \in 1..4 : buf[c.off + c.len - 4 - i + k] = sig[k]}
    IN  IF hits = {} THEN <<>>
        ELSE LET position == CHOOSE i \in hits : \A j \in hits : i <= j
             IN  <<c.len - (position + 4)>>

\* decode_eocds(o, b, opts): y is the EndOfCentralDirRecord.  s is the
\* outcome of adding the end record and sl that of adding the locator, each
\* with the cursor b that split_off left; ts is the outcome of
\* try_slice(&b, offset_eocd..)?, which is outside every add_mut
decode_eocds(o, c, h, frc) ==
    The({
        \* find(..).unwrap(): a panic when no signature was found
        IF eocds_abs = <<>>
        THEN [o |-> o, b |-> c, h |-> h, res |-> "panic", err |-> NoErr,
              y |-> 0]
        ELSE The({
            IF s.res # "ok" THEN s
            ELSE The({
                IF eocdl_abs = <<>> THEN s
                ELSE The({
                    IF sl.res # "ok" THEN sl
                    ELSE The({
                        IF ts.res # "ok"
                        THEN [sl EXCEPT !.res = ts.res, !.err = ts.err]
                        ELSE [AddMutObj(sl.o,
                                  "end_of_central_directory_record_zip64",
                                  ts.out,
                                  decode_eocd64(Decoder(<<>>, ts.out, sl.h),
                                                frc))
                                EXCEPT !.b = sl.b]
                        : ts \in {try_slice(sl.b, Included(sl.y), Unbounded)}})
                    : sl \in {[AddMutObj(s.o,
                                   "end_of_central_directory_locator",
                                   split_off(s.b, eocdl_abs[1]).rest,
                                   decode_eocdl(
                                       Decoder(<<>>,
                                           split_off(s.b, eocdl_abs[1]).rest,
                                           s.h), frc))
                                 EXCEPT !.b = split_off(s.b, eocdl_abs[1]).keep]}})
                : eocdl_abs \in {find(s.b, END_OF_CENTRAL_DIR_LOCATOR_SIG,
                                      EocdlSearchLen)}})
            : s \in {[AddMutObj(o, "end_of_central_dir_record",
                          split_off(c, eocds_abs[1]).rest,
                          decode_eocd(
                              Decoder(<<>>, split_off(c, eocds_abs[1]).rest, h),
                              frc))
                        EXCEPT !.b = split_off(c, eocds_abs[1]).keep]}})
        : eocds_abs \in {find(c, END_OF_CENTRAL_DIR_SIG, EocdSearchLen)}})

\* EndOfCentralDirRecord::cd_range (u64 to usize is lossless on the 64-bit
\* targets modelled, and the offsets of the inputs are far from wrapping)
cd_range(e) == [start |-> e.offset_cd, end |-> e.offset_cd + e.size_cd]

\* the `while !cd_slice.is_empty()` loop of decode_zip; y is `cds`, and a
\* turn ends with cds.push(cdr)
RECURSIVE central_directories_loop(_, _, _, _, _)
central_directories_loop(a, c, h, cds, frc) ==
    IF c.len = 0
    THEN [o |-> a, b |-> c, h |-> h, res |-> "ok", err |-> NoErr, y |-> cds]
    ELSE The({IF s.res # "ok" THEN [s EXCEPT !.y = cds]
              ELSE central_directories_loop(s.o, s.b, s.h, Append(cds, s.y),
                                            frc)
              : s \in {ArrAddObj(a, c, decode_cdr(Decoder(<<>>, c, h), frc))}})

\* let mut cd_slice = try_slice(&b, eocd.cd_range())?;
\* let cd = root.add_mut("central_directories", Meta::from(&cd_slice), ..)?;
central_directories(o, c, h, e, frc) ==
    The({IF ts.res # "ok"
         THEN [o |-> o, b |-> c, h |-> h, res |-> ts.res, err |-> ts.err,
               y |-> <<>>]
         ELSE AddMutArr(o, "central_directories", ts.out,
                  central_directories_loop(<<>>, ts.out, h, <<>>, frc))
         : ts \in {try_slice(c, Included(cd_range(e).start),
                             Excluded(cd_range(e).end))}})

\* the `for cdr in cd.iter().filter(..)` loop of decode_zip
RECURSIVE local_files_loop(_, _, _, _, _, _)

\* a turn of the loop for cdr: lf_slice.slice(offset..), which panics past
\* the end, then a.add_mut(..)? and the turns for the records left
local_file(a, lf_slice, h, cds, disk_nr, frc) ==
    IF cds[1].local_file_offset > lf_slice.len
    THEN [o |-> a, b |-> lf_slice, h |-> h, res |-> "panic", err |-> NoErr,
          y |-> 0]
    ELSE The({IF s.res # "ok" THEN s
              ELSE local_files_loop(s.o, lf_slice, s.h, Tail(cds), disk_nr,
                                    frc)
              : s \in {ArrAddObj(a,
                           slice(lf_slice, cds[1].local_file_offset,
                                 lf_slice.len),
                           decode_local_file(
                               Decoder(<<>>,
                                   slice(lf_slice, cds[1].local_file_offset,
                                         lf_slice.len), h),
                               frc, cds[1].common))}})

\* the loop without the filter on disk_nr_start
local_files_loop_no_filter(a, lf_slice, h, cds, disk_nr, frc) ==
    IF cds = <<>>
    THEN [o |-> a, b |-> lf_slice, h |-> h, res |-> "ok", err |-> NoErr,
          y |-> 0]
    ELSE local_file(a, lf_slice, h, cds, disk_nr, frc)

local_files_loop(a, lf_slice, h, cds, disk_nr, frc) ==
    IF cds = <<>>
    THEN [o |-> a, b |-> lf_slice, h |-> h, res |-> "ok", err |-> NoErr,
          y |-> 0]
    ELSE IF cds[1].disk_nr_start # disk_nr
    THEN local_files_loop(a, lf_slice, h, Tail(cds), disk_nr, frc)
    ELSE local_file(a, lf_slice, h, cds, disk_nr, frc)

\* let lf_slice = try_slice(&b, ..eocd.cd_range().start)?;
\* root.add_mut("local_files", Meta::from(&lf_slice), ..)?;
local_files(o, c, h, e, cds, frc) ==
    The({IF ts.res # "ok"
         THEN [o |-> o, b |-> c, h |-> h, res |-> ts.res, err |-> ts.err,
               y |-> 0]
         ELSE AddMutArr(o, "local_files", ts.out,
                  local_files_loop(<<>>, ts.out, h, cds, e.disk_nr, frc))
         : ts \in {try_slice(c, Unbounded, Excluded(cd_range(e).start))}})

----------------------------------------------------------------------------
(* The combinator harness: the cursor and builder operations of decode.rs  *)
(* applied to every cursor over a small buffer and to closures with every  *)
(* outcome (what they leave in their arguments, what they return).         *)

NoEocd == [disk_nr |-> 0, size_cd |-> 0, offset_cd |-> 0]
NoResult == [res |-> "none", err |-> NoErr]

HarnessBuf == [i \in 1..MaxLen |-> i]

\* every view of the harness buffer
Cursors == {Bytes(o, l) : o \in 0..MaxLen, l \in 0..MaxLen} \cap
           {c \in [src : {"in"}, off : 0..MaxLen, len : 0..MaxLen] :
               c.off + c.len <= MaxLen}

\* errors a closure may return: fresh, or already carrying a breadcrumb
ClosureErrors(c) ==
    {Error_new(c, MsgExpectedBytes(1)),
     with_index(Error_new(c, MsgExpectedSeq(<<1>>)), IndexStr("inner"))}

\* outcomes of a closure f(&mut Meta, &mut Val) run on the placeholder (m, v)
BuilderOutcomes(c, m) ==
    {[m |-> mm, v |-> VInt("U8", 7), res |-> "ok", err |-> NoErr, y |-> 1] :
        mm \in {m, Meta_from(truncate(c, 1))}}
    \cup
    {[m |-> mm, v |-> vv, res |-> "err", err |-> e, y |-> 0] :
        mm \in {m, Meta_from(truncate(c, 1))},
        vv \in {Val_default, VObj(<<>>)},
        e \in ClosureErrors(c)}

\* outcomes of a sub-parser f(&mut Bytes): it advances the cursor by k bytes
\* and then returns Ok(y) or an error
ParserOutcomes(c) ==
    {[b |-> split_off(c, k).rest, v |-> VObj(<<>>), res |-> "ok",
      err |-> NoErr, y |-> yy] : k \in 0..c.len, yy \in {1, 2}}
    \cup
    {[b |-> split_off(c, k).rest, v |-> VObj(<<>>), res |-> "err",
      err |-> Error_new(split_off(c, k).rest, MsgExpectedBytes(1)), y |-> 0] :
        k \in 0..c.len}

NoLast ==
    [op |-> "none", cur0 |-> NoBytes, n |-> 0, node0 |-> <<>>, field |-> "",
     fr |-> [m |-> Meta_from(NoBytes), v |-> Val_default, b |-> NoBytes,
             res |-> "ok", err |-> NoErr, y |-> 0],
     to0 |-> Meta_from(NoBytes), to |-> Meta_from(NoBytes),
     lo |-> Unbounded, hi |-> Unbounded, s |-> <<>>, frc |-> FALSE,
     res |-> "ok", err |-> NoErr, out |-> NoBytes, y |-> 0]

ZipIdle ==
    /\ force = FALSE
    /\ inflate = <<>>
    /\ b = NoBytes
    /\ root = <<>>
    /\ cells = <<>>
    /\ eocd = NoEocd
    /\ cd = <<>>
    /\ result = NoResult
    /\ evald = <<>>

zipVars == <<force, inflate, b, root, cells, eocd, cd, result, evald>>

\* pc names the family of operations a behaviour exercises: the cursor
\* operations on every view, or the builders on a growing Obj or Arr
InitHarness ==
    /\ buf = HarnessBuf
    /\ \/ pc = "cursor" /\ cur \in Cursors
       \/ pc = "builder" /\ cur \in {Bytes(0, MaxLen), Bytes(1, MaxLen - 1)}
    /\ node = <<>>
    /\ last = NoLast
    /\ ZipIdle

\* take(&mut cur, n)
DoTake ==
    /\ pc = "cursor"
    /\ \E n \in 0..(MaxLen + 1) :
        LET r == take(cur, n)
        IN  /\ cur' = r.b
            /\ last' = [NoLast EXCEPT !.op = "take", !.cur0 = cur, !.n = n,
                           !.res = r.res, !.err = r.err, !.out = r.out]
            /\ UNCHANGED <<buf, pc, node, zipVars>>

\* try_slice(&cur, (lo, hi)) for every pair of bounds up to one past the
\* buffer's length, and at usize::MAX
DoTrySlice ==
    /\ pc = "cursor"
    /\ \E lo, hi \in {Unbounded} \cup
                     {Included(n) : n \in 0..(MaxLen + 1) \cup {UsizeMax}} \cup
                     {Excluded(n) : n \in 0..(MaxLen + 1) \cup {UsizeMax}} :
         \E r \in {try_slice(cur, lo, hi)} :
            last' = [NoLast EXCEPT !.op = "try_slice", !.cur0 = cur,
                        !.lo = lo, !.hi = hi,
                        !.res = r.res, !.err = r.err, !.out = r.out]
    /\ UNCHANGED <<buf, pc, cur, node, zipVars>>

\* precise(&mut cur, s, force) for literals that match the buffer at some
\* cursor, that do not, and that are longer than the buffer
DoPrecise ==
    /\ pc = "cursor"
    /\ \E s \in {<<>>, <<1>>, <<1, 2>>, <<2, 3>>, <<3, 9>>,
                  [i \in 1..(MaxLen + 1) |-> i]}, frc \in BOOLEAN :
         \E r \in {precise(cur, s, frc)} :
            /\ cur' = r.b
            /\ last' = [NoLast EXCEPT !.op = "precise", !.cur0 = cur,
                           !.s = s, !.frc = frc, !.to = r.m,
                           !.res = r.res, !.err = r.err]
    /\ UNCHANGED <<buf, pc, node, zipVars>>

\* consume(&mut cur, &mut to, f)
DoConsume ==
    /\ pc = "cursor"
    /\ \E to \in {Meta_from(cur), Meta_from(NoBytes)} :
      \E fr \in ParserOutcomes(cur) :
        LET r == consume(cur, to, fr)
        IN  /\ cur' = fr.b
            /\ last' = [NoLast EXCEPT !.op = "consume", !.cur0 = cur,
                           !.fr = [@ EXCEPT !.b = fr.b, !.res = fr.res,
                                            !.err = fr.err, !.y = fr.y],
                           !.to0 = to, !.to = r.to,
                           !.res = r.res, !.err = r.err, !.y = r.y]
            /\ UNCHANGED <<buf, pc, node, zipVars>>

\* node.add_mut(field, Meta::from(&cur), f), node an Obj
DoObjAddMut ==
    /\ pc = "builder"
    /\ Len(node) < MaxKids
    /\ \A i \in 1..Len(node) : node[i].name # ""
    /\ \E field \in {"a", "b"} :
         \E fr \in BuilderOutcomes(cur, Meta_from(cur)) :
           LET r == Obj_add_mut(node, field, Meta_from(cur), fr)
           IN  /\ node' = r.o
               /\ last' = [NoLast EXCEPT !.op = "obj_add_mut", !.cur0 = cur,
                              !.node0 = node, !.field = field,
                              !.fr = [@ EXCEPT !.m = fr.m, !.v = fr.v,
                                   !.res = fr.res, !.err = fr.err, !.y = fr.y],
                              !.to0 = Meta_from(cur),
                              !.res = r.res, !.err = r.err, !.y = r.y]
               /\ UNCHANGED <<buf, pc, cur, zipVars>>

\* node.add_mut(Meta::from(&cur), f), node an Arr
DoArrAddMut ==
    /\ pc = "builder"
    /\ Len(node) < MaxKids
    /\ \A i \in 1..Len(node) : node[i].name = ""
    /\ \E fr \in BuilderOutcomes(cur, Meta_from(cur)) :
         LET r == Arr_add_mut(node, Meta_from(cur), fr)
         IN  /\ node' = r.o
             /\ last' = [NoLast EXCEPT !.op = "arr_add_mut", !.cur0 = cur,
                            !.node0 = node,
                            !.fr = [@ EXCEPT !.m = fr.m, !.v = fr.v,
                                 !.res = fr.res, !.err = fr.err, !.y = fr.y],
                            !.to0 = Meta_from(cur),
                            !.res = r.res, !.err = r.err, !.y = r.y]
             /\ UNCHANGED <<buf, pc, cur, zipVars>>

\* node.add_consumed(field, &mut cur, f), node an Obj
DoObjAddConsumed ==
    /\ pc = "builder"
    /\ Len(node) < MaxKids
    /\ \A i \in 1..Len(node) : node[i].name # ""
    /\ \E fr \in ParserOutcomes(cur) :
         LET r == Obj_add_consumed(node, "c", cur, fr)
         IN  /\ node' = r.o
             /\ cur' = fr.b
             /\ last' = [NoLast EXCEPT !.op = "obj_add_consumed", !.cur0 = cur,
                            !.node0 = node, !.field = "c",
                            !.fr = [@ EXCEPT !.b = fr.b, !.v = fr.v,
                                 !.res = fr.res, !.err = fr.err, !.y = fr.y],
                            !.to0 = Meta_from(cur),
                            !.to = r.o[Len(r.o)].meta,
                            !.res = r.res, !.err = r.err, !.y = r.y]
             /\ UNCHANGED <<buf, pc, zipVars>>

NextHarness ==
    \/ DoTake
    \/ DoTrySlice
    \/ DoPrecise
    \/ DoConsume
    \/ DoObjAddMut
    \/ DoArrAddMut
    \/ DoObjAddConsumed

SpecHarness == InitHarness /\ [][NextHarness]_vars

----------------------------------------------------------------------------
(* Claims about the combinators, checked under SpecHarness.                *)

\* the prefix of length n of the view c
Prefix(c, n) == [c EXCEPT !.len = n]

\* C2: when the closure given to Obj::add_mut or Arr::add_mut fails, the
\* placeholder is the last entry of the parent, as the closure left it and
\* with Meta.error holding the failure; the earlier entries are unchanged;
\* the caller gets the same error with exactly one breadcrumb appended, the
\* field name (Obj) or the zero-based index of the element (Arr).
RecordAndRethrow ==
    (last.op \in {"obj_add_mut", "arr_add_mut"} /\ last.fr.res = "err") =>
        LET n0 == Len(last.node0)
            crumb == IF last.op = "obj_add_mut"
                     THEN IndexStr(last.field) ELSE IndexInt(n0)
        IN  /\ Len(node) = n0 + 1
            /\ SubSeq(node, 1, n0) = last.node0
            /\ node[n0 + 1].name = last.field
            /\ node[n0 + 1].meta.error = <<last.fr.err>>
            /\ node[n0 + 1].meta.bytes = last.fr.m.bytes
            /\ node[n0 + 1].val = last.fr.v
            /\ last.res = "err"
            /\ last.err.position = last.fr.err.position
            /\ last.err.msg = last.fr.err.msg
            /\ last.err.path = Append(last.fr.err.path, crumb)

\* a failing closure under Arr::add_mut with an earlier sibling in place
RecordAndRethrowWitness ==
    /\ last.op = "arr_add_mut"
    /\ last.fr.res = "err"
    /\ Len(last.node0) = 1
    /\ last.fr.err.path # <<>>

\* C7: after consume(cursor, meta, f) returns, whether f succeeded or failed,
\* meta's span is the prefix of the original cursor that f advanced past, and
\* on success the result of f is passed through.
ConsumeSpanOnEveryReturn ==
    last.op = "consume" =>
        /\ last.to.bytes = Prefix(last.cur0, last.cur0.len - cur.len)
        /\ last.res = "ok" => last.y = last.fr.y

\* C10: take(c, n) with n <= len(c) returns the prefix of length n and leaves
\* c as the remaining suffix: the two do not overlap and their concatenation
\* is the original c; with n > len(c) it fails with an expected-n-bytes error
\* positioned at the cursor and leaves c unchanged.
TakeSplitsCursor ==
    last.op = "take" =>
        IF last.n <= last.cur0.len
        THEN /\ last.res = "ok"
             /\ last.out = Prefix(last.cur0, last.n)
             /\ cur.src = last.cur0.src
             /\ cur.off = last.out.off + last.out.len
             /\ last.out.len + cur.len = last.cur0.len
             /\ \A i \in 1..last.cur0.len :
                    Content(last.cur0)[i] =
                        IF i <= last.n THEN Content(last.out)[i]
                                       ELSE Content(cur)[i - last.n]
        ELSE /\ last.res = "err"
             /\ last.err = Error_new(last.cur0, MsgExpectedBytes(last.n))
             /\ cur = last.cur0

\* a take that splits a cursor into two non-empty parts
TakeSplitsCursorWitness ==
    /\ last.op = "take"
    /\ last.res = "ok"
    /\ 0 < last.n
    /\ last.n < last.cur0.len

\* C11: try_slice fails if and only if a bound exceeds the length or the bound
\* arithmetic overflows, the error then carrying the larger of the two bounds;
\* in every other case, empty ranges included, it returns the view of the
\* bytes [begin, end) and leaves the source cursor unchanged.
TrySliceTotal ==
    last.op = "try_slice" =>
        LET overflow == \/ last.lo.kind = "Excluded" /\ last.lo.n = UsizeMax
                        \/ last.hi.kind = "Included" /\ last.hi.n = UsizeMax
            begin == CASE last.lo.kind = "Included" -> last.lo.n
                       [] last.lo.kind = "Excluded" -> last.lo.n + 1
                       [] OTHER -> 0
            end == CASE last.hi.kind = "Included" -> last.hi.n + 1
                     [] last.hi.kind = "Excluded" -> last.hi.n
                     [] OTHER -> last.cur0.len
            larger == IF begin >= end THEN begin ELSE end
        IN  /\ cur = last.cur0
            /\ IF overflow THEN last.res = "err"
               ELSE IF larger > last.cur0.len
               THEN /\ last.res = "err"
                    /\ last.err = Error_new(last.cur0, MsgExpectedBytes(larger))
               ELSE /\ last.res = "ok"
                    /\ last.out.src = last.cur0.src
                    /\ last.out.off = last.cur0.off + begin
                    /\ last.out.len = IF end >= begin THEN end - begin ELSE 0

\* C12: with at least Len(s) bytes in the cursor, precise consumes exactly
\* Len(s) bytes and succeeds if and only if they equal s or force is set, the
\* returned Meta spanning the bytes read; a mismatch without force and a
\* cursor shorter than s both fail with the expectation of the literal s.
PreciseLiteral ==
    last.op = "precise" =>
        /\ last.res \in {"ok", "err"}
        /\ last.res = "err" => last.err.msg = MsgExpectedSeq(last.s)
        /\ IF Len(last.s) <= last.cur0.len
           THEN /\ cur = split_off(last.cur0, Len(last.s)).rest
                /\ last.res = "ok" <=>
                      \/ Content(Prefix(last.cur0, Len(last.s))) = last.s
                      \/ last.frc
                /\ last.res = "ok" =>
                      last.to.bytes = Prefix(last.cur0, Len(last.s))
           ELSE last.res = "err"

\* precise accepted bytes that differ from the literal because force is set
PreciseLiteralWitness ==
    /\ last.op = "precise"
    /\ last.res = "ok"
    /\ last.frc
    /\ last.s # <<>>
    /\ Content(last.to.bytes) # last.s

----------------------------------------------------------------------------
(* The evaluation harness: Val::eval applied to trees of atoms, Arr, Obj   *)
(* and Lazy nodes over a heap of cells whose closures return atoms, trees  *)
(* or further Lazy nodes.                                                  *)

Atoms == {Val_default, VInt("U8", 1)}

LazyVals(from) == {VLazy(i) : i \in from..NCells}

\* the entries made of the values vs: names and spans by position; with
\* `failed` the last entry is a placeholder that recorded an error
EntriesOf(vs, named, failed) ==
    [i \in 1..Len(vs) |->
        Entry(IF named THEN <<"f1", "f2", "f3", "f4">>[i] ELSE "",
              IF failed /\ i = Len(vs)
              THEN [Meta_from(Bytes(i - 1, 1)) EXCEPT
                       !.error = <<Error_new(Bytes(i - 1, 1), MsgExpectedBytes(2))>>]
              ELSE Meta_from(Bytes(i - 1, 1)),
              vs[i])]

SeqsUpTo(S, n) == UNION {[1..k -> S] : k \in 0..n}

\* Arr and Obj values whose entries hold the values of `leaves`
Composites(leaves) ==
    {VArr(EntriesOf(vs, FALSE, FALSE)) : vs \in SeqsUpTo(leaves, MaxWidth)}
    \cup
    {VObj(EntriesOf(vs, TRUE, FALSE)) : vs \in SeqsUpTo(leaves, MaxWidth)}
    \cup
    {VObj(EntriesOf(<<v>>, TRUE, TRUE)) : v \in {Val_default}}

\* the trees evaluated: leaves, composites of leaves, and one more level
Trees ==
    LET leaves == Atoms \cup LazyVals(1)
    IN  leaves \cup Composites(leaves)
        \cup {VObj(EntriesOf(<<t>>, TRUE, FALSE)) : t \in Composites(leaves)}

\* what the closure of cell i returns: an atom, the next cell's Lazy, or a
\* composite holding one (closures capture no tree node, so no cycles)
ThunkVals(i) ==
    IF i < NCells
    THEN {VInt("U8", 10 + i), VLazy(i + 1),
          VObj(EntriesOf(<<VBool(TRUE), VLazy(i + 1)>>, TRUE, FALSE))}
    ELSE {VInt("U8", 10 + i), VObj(EntriesOf(<<VBool(FALSE)>>, TRUE, FALSE))}

Heaps ==
    {h \in [1..NCells -> [init : {FALSE}, thunk : {[NoThunk EXCEPT !.val = v] :
                            v \in UNION {ThunkVals(i) : i \in 1..NCells}},
                          val : {V0}, runs : {0}]] :
        \A i \in 1..NCells : h[i].thunk.val \in ThunkVals(i)}

InitEval ==
    /\ buf = HarnessBuf
    /\ pc = "eval"
    /\ root \in {<<Entry("root", Meta_from(Bytes(0, MaxLen)), t)>> : t \in Trees}
    /\ cells \in Heaps
    /\ evald = <<>>
    /\ force = FALSE
    /\ inflate = <<>>
    /\ b = NoBytes
    /\ eocd = NoEocd
    /\ cd = <<>>
    /\ result = NoResult
    /\ cur = NoBytes
    /\ node = <<>>
    /\ last = NoLast

evalFrame == <<buf, force, inflate, pc, b, root, eocd, cd, result, cur, node, last>>

\* t.eval() on the tree
EvalTree ==
    /\ pc = "eval"
    /\ LET r == Val_eval(root[1].val, cells)
       IN  /\ evald' = <<[of |-> root[1].val, v |-> r.v]>>
           /\ cells' = r.h
    /\ UNCHANGED evalFrame

\* t.clone().eval(): the clone shares the tree's cells
EvalClone ==
    /\ pc = "eval"
    /\ LET c == Val_clone(root[1].val, cells)
           r == Val_eval(c.v, c.h)
       IN  /\ evald' = <<[of |-> root[1].val, v |-> r.v]>>
           /\ cells' = r.h
    /\ UNCHANGED evalFrame

\* eval of one child of the tree only (the rest stays unforced)
EvalChild ==
    /\ pc = "eval"
    /\ \E i \in 1..Len(root[1].val.kids) :
         LET r == Val_eval(root[1].val.kids[i].val, cells)
         IN  /\ evald' = <<[of |-> root[1].val.kids[i].val, v |-> r.v]>>
             /\ cells' = r.h
    /\ UNCHANGED evalFrame

\* eval of the value a previous eval returned
EvalAgain ==
    /\ pc = "eval"
    /\ Len(evald) = 1
    /\ LET r == Val_eval(evald[1].v, cells)
       IN  /\ evald' = Append(evald, [of |-> evald[1].v, v |-> r.v])
           /\ cells' = r.h
    /\ UNCHANGED evalFrame

NextEval ==
    \/ EvalTree
    \/ EvalClone
    \/ EvalChild
    \/ EvalAgain

SpecEval == InitEval /\ [][NextEval]_vars

----------------------------------------------------------------------------
(* Claims about evaluation, checked under SpecEval.                        *)

RECURSIVE NoLazy(_)
NoLazy(v) ==
    /\ v.tag # "Lazy"
    /\ \A i \in 1..Len(v.kids) : NoLazy(v.kids[i].val)

\* e keeps t: atoms are equal, Arr/Obj have the same entries in the same
\* order with the same names and Meta, and a Lazy is replaced by what keeps
\* the value its cell holds
RECURSIVE Keeps(_, _, _)
Keeps(t, e, h) ==
    CASE t.tag = "Lazy" -> h[t.cell].init /\ Keeps(h[t.cell].val, e, h)
      [] t.tag \in {"Arr", "Obj"} ->
            /\ e.tag = t.tag
            /\ Len(e.kids) = Len(t.kids)
            /\ \A i \in 1..Len(t.kids) :
                  /\ e.kids[i].name = t.kids[i].name
                  /\ e.kids[i].meta = t.kids[i].meta
                  /\ Keeps(t.kids[i].val, e.kids[i].val, h)
      [] OTHER -> e = t

\* C8: eval(t) holds no Lazy at any depth, keeps the order, names and Meta
\* of all Arr/Obj entries and the value of every atom, and evaluating the
\* result again changes nothing: eval(eval(t)) = eval(t).
EvalForcesAll ==
    /\ \A i \in 1..Len(evald) :
          /\ NoLazy(evald[i].v)
          /\ Keeps(evald[i].of, evald[i].v, cells)
    /\ Len(evald) = 2 => evald[2].v = evald[1].v

\* eval was applied twice to a tree with a Lazy whose closure returned a
\* value holding another Lazy
EvalForcesAllWitness ==
    /\ Len(evald) = 2
    /\ \E i \in 1..Len(root[1].val.kids) :
          /\ root[1].val.kids[i].val.tag = "Lazy"
          /\ \E k \in 1..Len(cells[1].val.kids) :
                cells[1].val.kids[k].val.tag = "Lazy"
          /\ root[1].val.kids[i].val.cell = 1
    /\ evald[1].of = root[1].val

\* C9: over any sequence of evals of a tree and of its clones, the closure of
\* every cell runs at most once; a cell goes from unevaluated to evaluated on
\* its first forcing, never back, and keeps the value memoised then.
SingleEvaluation ==
    [][\A i \in 1..Len(cells) :
          /\ cells'[i].runs <= 1
          /\ cells'[i].init <=> cells'[i].runs = 1
          /\ cells[i].init => cells'[i] = cells[i]
          /\ cells'[i].init => cells'[i].val = RunThunk(cells[i].thunk)]_vars

\* a cell forced by an earlier eval was reached again by a later one
SingleEvaluationWitness ==
    /\ Len(evald) = 2
    /\ root[1].val.tag = "Lazy"
    /\ cells[root[1].val.cell].init
    /\ cells[root[1].val.cell].runs = 1

----------------------------------------------------------------------------
(* The archives the decoder is run on.  Each is assembled byte for byte    *)
(* in the layout decode_zip reads: local files, central directory,         *)
(* optional ZIP64 record and locator, end-of-central-directory record.     *)

MaxMembers == 2

\* n as w little-endian bytes
RECURSIVE LE(_, _)
LE(n, w) == IF w = 0 THEN <<>> ELSE <<n % 256>> \o LE(n \div 256, w - 1)

RECURSIVE Flatten(_)
Flatten(ss) == IF ss = <<>> THEN <<>> ELSE ss[1] \o Flatten(Tail(ss))

FlagDataDescriptor == 8

\* an extra field: tag, size, data
ExtraField(tag, data) == LE(tag, 2) \o LE(Len(data), 2) \o data

Member(method, flags, payload, lfh_csize, disk, cdr_extra, lfh_extra, dd) ==
    [name |-> <<97>>, method |-> method, flags |-> flags, payload |-> payload,
     lfh_csize |-> lfh_csize, disk |-> disk, cdr_extra |-> cdr_extra,
     lfh_extra |-> lfh_extra, dd |-> dd]

Stored == Member(Method_none, 0, <<104, 105>>, 2, 0, <<>>, <<>>, <<>>)
Deflated == Member(Method_deflated, 0, <<75, 3>>, 2, 0, <<>>, <<>>, <<>>)
EmptyFile == Member(Method_none, 0, <<>>, 0, 0, <<>>, <<>>, <<>>)
UnknownMethod == Member(7, 0, <<1>>, 1, 0, <<>>, <<>>, <<>>)
Bzip2 == Member(12, 0, <<1>>, 1, 0, <<>>, <<>>, <<>>)
OtherDisk == Member(Method_none, 0, <<104>>, 1, 1, <<>>, <<>>, <<>>)
Deferred ==
    Member(Method_none, FlagDataDescriptor, <<104, 105>>, 0, 0, <<>>, <<>>,
           DATA_INDICATOR_SIG \o LE(0, 4) \o LE(2, 4) \o LE(2, 4))
DeferredNoSig ==
    Member(Method_deflated, FlagDataDescriptor, <<75>>, 0, 0, <<>>, <<>>,
           LE(0, 4) \o LE(1, 4) \o LE(1, 4))
Timestamped ==
    Member(Method_none, 2049, <<104>>, 1, 0,
           ExtraField(TagExtendedTimestamp, <<1>> \o LE(5, 4)),
           ExtraField(TagExtendedTimestamp, <<3>> \o LE(5, 4) \o LE(6, 4))
               \o ExtraField(9, <<0>>),
           <<>>)

Members == {Stored, Deflated, OtherDisk, Deferred, Timestamped}

\* a local file: header, name, extra fields, data, data descriptor
LocalFile(m) ==
    LOCAL_FILE_SIG \o LE(20, 2) \o LE(m.flags, 2) \o LE(m.method, 2)
    \o LE(21, 2) \o LE(33, 2) \o LE(0, 4) \o LE(m.lfh_csize, 4)
    \o LE(Len(m.payload), 4) \o LE(Len(m.name), 2) \o LE(Len(m.lfh_extra), 2)
    \o m.name \o m.lfh_extra \o m.payload \o m.dd

\* a central directory record pointing at offset
CentralRecord(m, offset) ==
    CENTRAL_DIR_SIG \o LE(20, 2) \o LE(20, 2) \o LE(m.flags, 2)
    \o LE(m.method, 2) \o LE(21, 2) \o LE(33, 2) \o LE(0, 4)
    \o LE(Len(m.payload), 4) \o LE(Len(m.payload), 4) \o LE(Len(m.name), 2)
    \o LE(Len(m.cdr_extra), 2) \o LE(0, 2) \o LE(m.disk, 2) \o LE(0, 2)
    \o LE(0, 4) \o LE(offset, 4) \o m.name \o m.cdr_extra

EndRecord(n, size_cd, offset_cd, comment) ==
    END_OF_CENTRAL_DIR_SIG \o LE(0, 2) \o LE(0, 2) \o LE(n, 2) \o LE(n, 2)
    \o LE(size_cd, 4) \o LE(offset_cd, 4) \o LE(Len(comment), 2) \o comment

\* the ZIP64 record as decode_eocd64 reads it: 48 bytes before the
\* extensible data, the two record counts being four bytes wide
EndRecord64(size, n, size_cd, offset_cd, ext) ==
    END_OF_CENTRAL_DIR_64_SIG \o LE(size, 8) \o LE(45, 2) \o LE(45, 2)
    \o LE(0, 4) \o LE(0, 4) \o LE(n, 4) \o LE(n, 4) \o LE(size_cd, 8)
    \o LE(offset_cd, 8) \o ext

Locator(offset) ==
    END_OF_CENTRAL_DIR_LOCATOR_SIG \o LE(0, 4) \o LE(offset, 8) \o LE(1, 4)

RECURSIVE Offsets(_, _)
Offsets(files, at) ==
    IF files = <<>> THEN <<>>
    ELSE <<at>> \o Offsets(Tail(files), at + Len(files[1]))

\* a well-formed archive of the members ms, gap bytes between the local
\* files and the central directory, and trailing bytes after the comment
Archive(ms, gap, comment, trailing) ==
    LET files == [i \in 1..Len(ms) |-> LocalFile(ms[i])]
        offs == Offsets(files, 0)
        lfs == Flatten(files) \o gap
        cdrs == Flatten([i \in 1..Len(ms) |-> CentralRecord(ms[i], offs[i])])
    IN  lfs \o cdrs \o EndRecord(Len(ms), Len(cdrs), Len(lfs), comment)
        \o trailing

\* the same with the central directory in reverse order
ArchiveReversed(ms) ==
    LET files == [i \in 1..Len(ms) |-> LocalFile(ms[i])]
        offs == Offsets(files, 0)
        lfs == Flatten(files)
        cdrs == Flatten([i \in 1..Len(ms) |->
                    CentralRecord(ms[Len(ms) + 1 - i], offs[Len(ms) + 1 - i])])
    IN  lfs \o cdrs \o EndRecord(Len(ms), Len(cdrs), Len(lfs), <<>>)

\* an archive whose end record is preceded by a ZIP64 record and locator;
\* size is the ZIP64 record's size field, at the locator's offset
Archive64(ms, size, ext, at) ==
    LET files == [i \in 1..Len(ms) |-> LocalFile(ms[i])]
        offs == Offsets(files, 0)
        lfs == Flatten(files)
        cdrs == Flatten([i \in 1..Len(ms) |-> CentralRecord(ms[i], offs[i])])
    IN  lfs \o cdrs
        \o EndRecord64(size, Len(ms), Len(cdrs), Len(lfs), ext)
        \o Locator(Len(lfs) + Len(cdrs) + at)
        \o EndRecord(Len(ms), Len(cdrs), Len(lfs), <<>>)

\* an archive whose end record and first central record carry the given
\* (possibly wrong) size_cd, offset_cd and local file offset
ArchiveWith(m, size_delta, offset_delta, lf_offset) ==
    LET lfs == LocalFile(m)
        cdrs == CentralRecord(m, lf_offset)
    IN  lfs \o cdrs
        \o EndRecord(1, Len(cdrs) + size_delta, Len(lfs) + offset_delta, <<>>)

\* a central record with a ZIP64 extra field carrying the sizes and offset
Zip64Member ==
    [Stored EXCEPT !.cdr_extra =
        ExtraField(TagZip64, LE(2, 8) \o LE(2, 8) \o LE(0, 8))]

\* a ZIP64 extra field whose data is the first n bytes of: uncompressed and
\* compressed size 2, local header offset `offset`, disk number `disk`
Zip64Extra(n, offset, disk) ==
    ExtraField(TagZip64,
               SubSeq(LE(2, 8) \o LE(2, 8) \o LE(offset, 8) \o LE(disk, 4), 1, n))

\* central records on disk 1 by their fixed field, with a ZIP64 extra field
\* of n data bytes before, between or after other extra fields
Zip64Cases ==
    {[Stored EXCEPT !.disk = 1, !.cdr_extra = x] : x \in
        {ExtraField(9, <<0>>) \o Zip64Extra(28, 0, 0)
            \o ExtraField(TagExtendedTimestamp, <<1>> \o LE(5, 4)),
         Zip64Extra(28, 0, 0) \o ExtraField(9, <<0>>),
         ExtraField(9, <<0>>) \o Zip64Extra(24, 0, 0),
         Zip64Extra(28, 3, 2),
         Zip64Extra(24, 0, 0),
         Zip64Extra(16, 0, 0) \o ExtraField(9, <<0>>),
         Zip64Extra(8, 0, 0),
         Zip64Extra(0, 0, 0),
         Zip64Extra(26, 0, 0),
         ExtraField(9, <<0>>)}}

\* bytes with the byte at index i zeroed
Corrupt(bytes, i) == [bytes EXCEPT ![i] = 0]

\* bytes with s written over the bytes after the first `at`
Patch(bytes, at, s) ==
    [i \in 1..Len(bytes) |->
        IF i \in (at + 1)..(at + Len(s)) THEN s[i - at] ELSE bytes[i]]

\* a member with deferred sizes whose central record carries the sizes in a
\* ZIP64 extra field; its fixed compressed size is then set to v
DeferredZip64 == [Deferred EXCEPT !.cdr_extra = Zip64Extra(16, 0, 0)]
ArchiveDeferredZip64(v) ==
    Patch(ArchiveWith(DeferredZip64, 0, 0, 0),
          Len(LocalFile(DeferredZip64)) + 20, LE(v, 4))

MemberLists ==
    UNION {[1..n -> Members] : n \in 0..MaxMembers}

Prefixes(s) == {SubSeq(s, 1, k) : k \in 0..Len(s)}

\* every input: its bytes, and the outcomes the decompressor may have on it
ZipInput(bytes, inflates) == [bytes |-> bytes, inflates |-> inflates]

ZipInputs ==
    {ZipInput(Archive(ms, <<>>, <<>>, <<>>),
              IF \E i \in 1..Len(ms) : ms[i].method = Method_deflated
              THEN {<<>>, <<3>>} ELSE {<<>>}) : ms \in MemberLists}
    \cup
    {ZipInput(bs, {<<>>}) : bs \in
        Prefixes(EndRecord(0, 0, 0, <<>>))
        \cup {Archive(<<Stored>>, <<0>>, <<>>, <<>>),
              Archive(<<Stored>>, <<>>, <<33>>, <<>>),
              Archive(<<Stored>>, <<>>, <<>>, <<0>>),
              Archive(<<>>, <<>>, END_OF_CENTRAL_DIR_SIG, <<>>),
              ArchiveReversed(<<Stored, EmptyFile>>),
              Archive(<<EmptyFile, UnknownMethod>>, <<>>, <<>>, <<>>),
              Archive(<<Bzip2, Stored>>, <<>>, <<>>, <<>>),
              Archive(<<DeferredNoSig>>, <<>>, <<>>, <<>>),
              Archive(<<Zip64Member>>, <<>>, <<>>, <<>>),
              Archive64(<<Stored>>, 44, <<>>, 0),
              Archive64(<<Stored>>, 49, ExtraField(1, <<7>>), 0),
              Archive64(<<Stored>>, 43, <<>>, 0),
              Archive64(<<Stored>>, 45, <<>>, 0),
              Archive64(<<Stored>>, 44, <<>>, 100),
              Corrupt(Archive64(<<Stored>>, 44, <<>>, 0),
                      Len(LocalFile(Stored)) + Len(CentralRecord(Stored, 0)) + 1),
              Corrupt(ArchiveWith(Stored, 0, 0, 0), 1),
              Corrupt(ArchiveWith(Stored, 0, 0, 0), Len(LocalFile(Stored)) + 1),
              ArchiveWith(Stored, 0, 0, 0),
              ArchiveWith([Stored EXCEPT !.lfh_csize = 9], 0, 0, 0)}
        \cup {ArchiveWith(m, 0, 0, 5) : m \in Zip64Cases}
        \cup {ArchiveDeferredZip64(v) : v \in {0, 2, UsizeMax}}
        \cup {ArchiveWith(Stored, 1, 0, 0),
              ArchiveWith(Stored, 0, 1, 0),
              ArchiveWith(Stored, 0, 100, 0),
              ArchiveWith(Stored, -1, 0, 0),
              ArchiveWith(Stored, 0, -1, 0),
              ArchiveWith(Stored, 0, 0, 1),
              ArchiveWith(Stored, 0, 0, 100),
              ArchiveWith(Deferred, 0, 0, 0),
              ArchiveWith([Stored EXCEPT !.name = <<>>], 0, 0, 0)}}
----------------------------------------------------------------------------
(* decode_zip on the whole input with a fresh root Obj and any Opts, then  *)
(* as in main Val::Obj(o).eval() and r.unwrap().  decode_zip is followed   *)
(* through its three statements; a `?` or a panic ends it.                 *)

Init ==
    /\ \E z \in ZipInputs : buf = z.bytes /\ inflate \in z.inflates
    /\ force \in BOOLEAN
    /\ pc = "decode_eocds"
    /\ b = Bytes(0, Len(buf))
    /\ root = <<>>
    /\ cells = <<>>
    /\ eocd = NoEocd
    /\ cd = <<>>
    /\ result = NoResult
    /\ evald = <<>>
    /\ cur = NoBytes
    /\ node = <<>>
    /\ last = NoLast

zipFrame == <<buf, force, inflate, cur, node, last>>

\* decode_zip after a statement with outcome r: `?` returns its error
Returned(r, next) ==
    /\ root' = r.o
    /\ cells' = r.h
    /\ result' = IF r.res = "ok" /\ next # "returned" THEN result
                 ELSE [res |-> r.res, err |-> r.err]
    /\ pc' = IF r.res = "ok" THEN next ELSE "returned"

\* let eocd = decode_eocds(root, &mut b, opts)?;
DecodeEocds ==
    /\ pc = "decode_eocds"
    /\ \E r \in {decode_eocds(root, b, cells, force)} :
          /\ Returned(r, "central_directories")
          /\ b' = r.b
          /\ eocd' = IF r.res = "ok" THEN r.y ELSE eocd
    /\ UNCHANGED <<cd, evald, zipFrame>>

\* let mut cd_slice = try_slice(&b, eocd.cd_range())?;
\* let cd = root.add_mut("central_directories", ..)?;
DecodeCentralDirectories ==
    /\ pc = "central_directories"
    /\ \E r \in {central_directories(root, b, cells, eocd, force)} :
          /\ Returned(r, "local_files")
          /\ cd' = IF r.res = "ok" THEN r.y ELSE cd
    /\ UNCHANGED <<b, eocd, evald, zipFrame>>

\* let lf_slice = try_slice(&b, ..eocd.cd_range().start)?;
\* root.add_mut("local_files", ..)?;  Ok(())
DecodeLocalFiles ==
    /\ pc = "local_files"
    /\ Returned(local_files(root, b, cells, eocd, cd, force), "returned")
    /\ UNCHANGED <<b, eocd, cd, evald, zipFrame>>

\* let o = Val::Obj(o).eval();  (not reached when decode_zip panicked)
EvalRoot ==
    /\ pc = "returned"
    /\ result.res # "panic"
    /\ \E r \in {Val_eval(VObj(root), cells)} :
          /\ evald' = <<[of |-> VObj(root), v |-> r.v]>>
          /\ cells' = r.h
    /\ pc' = "evaluated"
    /\ UNCHANGED <<b, root, eocd, cd, result, zipFrame>>

\* dbg!(r.unwrap()): main panics on a returned error
Unwrap ==
    /\ pc = "evaluated"
    /\ pc' = IF result.res = "ok" THEN "exit" ELSE "abort"
    /\ UNCHANGED <<b, root, cells, eocd, cd, result, evald, zipFrame>>

Next ==
    \/ DecodeEocds
    \/ DecodeCentralDirectories
    \/ DecodeLocalFiles
    \/ EvalRoot
    \/ Unwrap

Spec == Init /\ [][Next]_vars
----------------------------------------------------------------------------
(* Properties of decode_zip.                                               *)

\* the children k of a composite tile span: same buffer, first child at the
\* start, each next child where the previous ended, last child at the end
Tiles(span, k) ==
    IF k = <<>> THEN span.len = 0
    ELSE /\ \A i \in 1..Len(k) : k[i].meta.bytes.src = span.src
         /\ k[1].meta.bytes.off = span.off
         /\ \A i \in 1..(Len(k) - 1) :
               k[i + 1].meta.bytes.off = k[i].meta.bytes.off + k[i].meta.bytes.len
         /\ k[Len(k)].meta.bytes.off + k[Len(k)].meta.bytes.len
                = span.off + span.len

RECURSIVE SpansTile(_)
SpansTile(e) ==
    /\ e.meta.bytes.src = "in"
    /\ e.meta.bytes.off + e.meta.bytes.len <= Len(buf)
    /\ e.val.tag \in {"Obj", "Arr"} => Tiles(e.meta.bytes, e.val.kids)
    /\ \A i \in 1..Len(e.val.kids) : SpansTile(e.val.kids[i])

\* C1: after a successful decode_zip and eval, every node's span lies in the
\* input and the spans of every composite's children, in order, tile the
\* composite's own span.
SpanFidelity ==
    (pc = "evaluated" /\ result.res = "ok") =>
        \A i \in 1..Len(evald[1].v.kids) : SpansTile(evald[1].v.kids[i])

\* C3: every Error decode_zip returns has a non-empty path.
BreadcrumbShape ==
    result.res = "err" => result.err.path # <<>>

\* C4: on an input that holds an end record, decode_zip finishes by
\* returning, success or Error; it never panics.
ErrorsAreValues ==
    find(Bytes(0, Len(buf)), END_OF_CENTRAL_DIR_SIG, EocdSearchLen) # <<>>
        => result.res # "panic"

\* C5: when the input holds no end-of-central-directory signature in its
\* last 65,558 bytes, decode_zip returns an Error.
EocdNotFoundIsReturned ==
    (pc # "decode_eocds"
     /\ find(Bytes(0, Len(buf)), END_OF_CENTRAL_DIR_SIG, EocdSearchLen) = <<>>)
        => result.res = "err"

Names(entries) == [i \in 1..Len(entries) |-> entries[i].name]

RECURSIVE OnDisk(_, _)
OnDisk(cds, disk_nr) ==
    IF cds = <<>> THEN <<>>
    ELSE IF cds[1].disk_nr_start = disk_nr
    THEN <<cds[1]>> \o OnDisk(Tail(cds), disk_nr)
    ELSE OnDisk(Tail(cds), disk_nr)

\* whether the bytes before the end record hold a locator signature in
\* their last 20 bytes
LocatorFound ==
    LET p == find(Bytes(0, Len(buf)), END_OF_CENTRAL_DIR_SIG, EocdSearchLen)[1]
    IN  find(Bytes(0, p), END_OF_CENTRAL_DIR_LOCATOR_SIG, EocdlSearchLen) # <<>>

\* C6: after a successful decode_zip the root holds the end record, then
\* (only when a locator was found) the locator and the ZIP64 record, then
\* central_directories, then local_files; central_directories has one
\* element per record of the central-directory slice, in slice order;
\* local_files has one element per record whose disk number is the
\* archive's, in the records' order, each starting at the record's local
\* header offset inside [0, offset_cd).
OutputShape ==
    result.res = "ok" =>
        LET cdn == root[Len(root) - 1]
            lfn == root[Len(root)]
            cdk == cdn.val.kids
            lfk == lfn.val.kids
            on == OnDisk(cd, eocd.disk_nr)
        IN  /\ Names(root) =
                 <<"end_of_central_dir_record">>
                 \o (IF LocatorFound
                     THEN <<"end_of_central_directory_locator",
                            "end_of_central_directory_record_zip64">>
                     ELSE <<>>)
                 \o <<"central_directories", "local_files">>
            /\ cdn.val.tag = "Arr" /\ lfn.val.tag = "Arr"
            /\ cdn.meta.bytes = Bytes(eocd.offset_cd, eocd.size_cd)
            /\ Len(cdk) = Len(cd)
            /\ Tiles(cdn.meta.bytes, cdk)
            /\ \A i \in 1..Len(cdk) :
                  Content(truncate(cdk[i].meta.bytes, 4)) = CENTRAL_DIR_SIG \/ force
            /\ lfn.meta.bytes = Bytes(0, eocd.offset_cd)
            /\ Len(lfk) = Len(on)
            /\ \A i \in 1..Len(lfk) :
                  /\ lfk[i].meta.bytes.off = on[i].local_file_offset
                  /\ Within(lfk[i].meta.bytes, lfn.meta.bytes)

\* two central records, only the second on the archive's disk: local_files
\* holds one element, at the second record's offset
OutputShapeWitness ==
    /\ result.res = "ok"
    /\ Len(cd) = 2
    /\ cd[1].disk_nr_start # eocd.disk_nr
    /\ cd[2].disk_nr_start = eocd.disk_nr
    /\ Len(root[Len(root)].val.kids) = 1
    /\ root[Len(root)].val.kids[1].meta.bytes.off = cd[2].local_file_offset
    /\ cd[2].local_file_offset > 0
\* the end record was decoded, its central-directory range lies in the bytes
\* before it, and the range starts with four bytes that are not 50 4B 01 02
WrongFirstSignature ==
    /\ pc \notin {"decode_eocds", "central_directories"}
    /\ eocd # NoEocd
    /\ eocd.size_cd >= 4
    /\ eocd.offset_cd + eocd.size_cd <= b.len
    /\ Content(Bytes(eocd.offset_cd, 4)) # CENTRAL_DIR_SIG

\* C13: when the first central directory record carries a wrong signature,
\* decode_zip without force returns an error whose path, in construction
\* order, is signature, 0, central_directories and whose expectation is the
\* literal 50 4B 01 02, and the partial tree still starts with the decoded
\* end record; with force there is no error at that path and the first
\* record's signature field spans the four bytes found.
ForcePolicy ==
    WrongFirstSignature =>
        IF ~force
        THEN /\ pc \in {"returned", "evaluated", "abort"}
             /\ result.res = "err"
             /\ result.err.path = <<IndexStr("signature"), IndexInt(0),
                                    IndexStr("central_directories")>>
             /\ result.err.msg = MsgExpectedSeq(CENTRAL_DIR_SIG)
             /\ result.err.position = Bytes(eocd.offset_cd, 4)
             /\ root[1].name = "end_of_central_dir_record"
             /\ root[1].meta.error = <<>>
             /\ root[1].meta.bytes.len >= 22
        ELSE /\ result.res = "err" =>
                   result.err.path # <<IndexStr("signature"), IndexInt(0),
                                       IndexStr("central_directories")>>
             /\ \E k \in 1..Len(root) :
                   /\ root[k].name = "central_directories"
                   /\ root[k].val.kids[1].val.kids[1].name = "signature"
                   /\ root[k].val.kids[1].val.kids[1].meta.error = <<>>
                   /\ root[k].val.kids[1].val.kids[1].meta.bytes
                          = Bytes(eocd.offset_cd, 4)

\* the corrupted archive decoded without force: the error was returned
ForcePolicyWitness ==
    /\ WrongFirstSignature
    /\ ~force
    /\ pc = "returned"
    /\ result.res = "err"
    /\ Len(root) = 2

\* the same archive decoded with force, to the end
ForcePolicyForcedWitness ==
    /\ WrongFirstSignature
    /\ force
    /\ result.res = "ok"

\* the integer of the field `name` among the entries kids
FieldInt(kids, name) ==
    (CHOOSE e \in {kids[i] : i \in 1..Len(kids)} : e.name = name).val.n

\* what forcing gave (v) for the `compressed` entry c of a local file whose
\* header names the method m
Uncompressed(c, m, v) ==
    /\ m \in CompressionMethods => v.tag = "Obj"
    /\ m = Method_none =>
          /\ c.meta.bytes.len > 0
          /\ Names(v.kids) = <<"uncompressed">>
          /\ v.kids[1].meta.bytes = c.meta.bytes
          /\ v.kids[1].meta.error = <<>>
          /\ Content(v.kids[1].meta.bytes) = Content(c.meta.bytes)
    /\ m \in CompressionMethods \ {Method_none, Method_deflated} => v.kids = <<>>
    /\ (m = Method_deflated /\ inflate = <<>>) => v.kids = <<>>

\* C14: after decode_zip and eval, the forced value of every local file's
\* `compressed` field is, for method 0, an object whose only child
\* `uncompressed` spans exactly the bytes of the compressed field (which are
\* not empty); for the other methods of CompressionMethod except deflate,
\* and for a deflate stream the decompressor rejects, it is an empty object;
\* forcing yields a value in every case.
StoreRoundTrip ==
    evald # <<>> =>
        \A k \in 1..Len(root) :
            root[k].name = "local_files" =>
                \A i \in 1..Len(root[k].val.kids) :
                    \A j \in 1..Len(root[k].val.kids[i].val.kids) :
                        root[k].val.kids[i].val.kids[j].name = "compressed" =>
                            Uncompressed(
                                root[k].val.kids[i].val.kids[j],
                                FieldInt(root[k].val.kids[i].val.kids,
                                         "compression_method"),
                                evald[1].v.kids[k].val.kids[i].val.kids[j].val)

\* the stored member `hi`, forced: the uncompressed child holds 68 69
StoreRoundTripWitness ==
    /\ evald # <<>>
    /\ result.res = "ok"
    /\ \E i \in 1..Len(root[Len(root)].val.kids) :
          \E j \in 1..Len(root[Len(root)].val.kids[i].val.kids) :
             /\ root[Len(root)].val.kids[i].val.kids[j].name = "compressed"
             /\ root[Len(root)].val.kids[i].val.kids[j].val.tag = "Lazy"
             /\ FieldInt(root[Len(root)].val.kids[i].val.kids,
                         "compression_method") = Method_none
             /\ Names(evald[1].v.kids[Len(root)].val.kids[i].val.kids[j].val.kids)
                    = <<"uncompressed">>
             /\ Content(evald[1].v.kids[Len(root)].val.kids[i].val.kids[j]
                            .val.kids[1].meta.bytes) = <<104, 105>>

\* a member with method 12 (bzip2), forced: an empty object
UnsupportedMethodWitness ==
    /\ evald # <<>>
    /\ result.res = "ok"
    /\ \E i \in 1..Len(root[Len(root)].val.kids) :
          \E j \in 1..Len(root[Len(root)].val.kids[i].val.kids) :
             /\ root[Len(root)].val.kids[i].val.kids[j].name = "compressed"
             /\ FieldInt(root[Len(root)].val.kids[i].val.kids,
                         "compression_method") = 12
             /\ evald[1].v.kids[Len(root)].val.kids[i].val.kids[j].val = VObj(<<>>)

\* the {tag, size, data} records of an extra-field area, read from its bytes
RECURSIVE ExtraRecords(_)
ExtraRecords(s) ==
    IF Len(s) < 4 THEN <<>>
    ELSE <<[tag |-> s[1] + 256 * s[2],
            data |-> SubSeq(s, 5, 4 + s[3] + 256 * s[4])]>>
         \o ExtraRecords(SubSeq(s, 5 + s[3] + 256 * s[4], Len(s)))

\* the data of the ZIP64 records (tag 0x0001) among them
RECURSIVE Zip64Data(_)
Zip64Data(recs) ==
    IF recs = <<>> THEN <<>>
    ELSE (IF recs[1].tag = TagZip64 THEN <<recs[1].data>> ELSE <<>>)
         \o Zip64Data(Tail(recs))

\* what decode_cdr is to return for a record with the decoded fields rec
\* whose extra fields hold at most one ZIP64 record, with data z[1]
Zip64Wins(rec, z, r) ==
    /\ r.local_file_offset =
          IF z # <<>> /\ Len(z[1]) >= 24
          THEN from_le_bytes(SubSeq(z[1], 17, 24))
          ELSE FieldInt(rec, "relative_offset_of_local_file_header")
    /\ r.disk_nr_start =
          IF z # <<>> /\ Len(z[1]) >= 28
          THEN from_le_bytes(SubSeq(z[1], 25, 28))
          ELSE FieldInt(rec, "disk_number_where_file_starts")

\* the bytes of the extra-field area of a decoded record
ExtraBytes(rec) ==
    Content((CHOOSE e \in {rec[i] : i \in 1..Len(rec)} :
                e.name = "extra_fields").meta.bytes)

Zip64PartialWitness ==
    /\ Len(cd) = 1
    /\ cd[1].local_file_offset = 0
    /\ cd[1].disk_nr_start = 1
    /\ \E k \in 1..Len(root) :
          /\ root[k].name = "central_directories"
          /\ FieldInt(root[k].val.kids[1].val.kids,
                      "relative_offset_of_local_file_header") = 5

\* the entry `name` among the entries kids, and whether there is one
FieldAt(kids, name) == CHOOSE e \in {kids[i] : i \in 1..Len(kids)} : e.name = name
HasField(kids, name) == \E i \in 1..Len(kids) : kids[i].name = name

\* the indices of the central records on the archive's disk, in order
OnDiskIdx ==
    SelectSeq([i \in 1..Len(cd) |-> i],
              LAMBDA i : cd[i].disk_nr_start = eocd.disk_nr)

\* the input holds at offset a local file header with the data_descriptor
\* flag set and a compressed size of 0
DefersSize(offset) ==
    /\ offset + 30 <= eocd.offset_cd
    /\ Content(Bytes(offset, 4)) = LOCAL_FILE_SIG
    /\ (from_le_bytes(Content(Bytes(offset + 6, 2))) \div FlagDataDescriptor) % 2 = 1
    /\ from_le_bytes(Content(Bytes(offset + 18, 4))) = 0

\* the compressed size a central record gives: the one of its ZIP64 extra
\* field (data z[1]) when that supplies it, else the fixed field
TrueCompressedSize(rec, z) ==
    IF z # <<>> /\ Len(z[1]) >= 16
    THEN from_le_bytes(SubSeq(z[1], 9, 16))
    ELSE from_le_bytes(Content(FieldAt(rec, "compressed_size").meta.bytes))

\* the local file lf has a payload of size bytes right after its header and
\* a data descriptor right after the payload
PayloadThenDescriptor(lf, size) ==
    /\ HasField(lf, "compressed")
    /\ HasField(lf, "data_indicator")
    /\ FieldAt(lf, "compressed").meta.bytes.len = size
    /\ FieldAt(lf, "data_indicator").meta.bytes.off
          = FieldAt(lf, "compressed").meta.bytes.off + size
    /\ FieldAt(lf, "data_indicator").meta.error = <<>>
    /\ Names(FieldAt(lf, "data_indicator").val.kids) =
          (IF starts_with(Bytes(FieldAt(lf, "compressed").meta.bytes.off + size, 4),
                          DATA_INDICATOR_SIG)
           THEN <<"signature">> ELSE <<>>)
          \o <<"crc32_uncompressed", "compressed_size", "uncompressed_size">>

\* C17: when decode_zip has gone through the local files, every local file
\* it started on whose header has the data_descriptor flag and a compressed
\* size of 0 has a payload of exactly the compressed size given by its
\* central record (by the record's ZIP64 extra field when that carries the
\* size), followed at once by the data descriptor, decoded with its
\* signature when the bytes 50 4B 07 08 are there and without it otherwise.
DeferredSize ==
    (pc \in {"returned", "evaluated", "exit", "abort"} /\ cd # <<>>) =>
        \A k, kc \in 1..Len(root) :
            (root[k].name = "local_files"
             /\ root[kc].name = "central_directories") =>
                \A j \in 1..Len(root[k].val.kids) :
                    DefersSize(cd[OnDiskIdx[j]].local_file_offset) =>
                        PayloadThenDescriptor(
                            root[k].val.kids[j].val.kids,
                            TrueCompressedSize(
                                root[kc].val.kids[OnDiskIdx[j]].val.kids,
                                Zip64Data(ExtraRecords(ExtraBytes(
                                    root[kc].val.kids[OnDiskIdx[j]].val.kids)))))

\* deferred sizes without ZIP64: the payload and the descriptor are found
DeferredSizeFixedField ==
    /\ result.res = "ok"
    /\ Len(cd) = 1
    /\ DefersSize(0)
    /\ \E k \in 1..Len(root) :
          /\ root[k].name = "local_files"
          /\ PayloadThenDescriptor(root[k].val.kids[1].val.kids, 1)

----------------------------------------------------------------------------
(* The TAR decoder (tar.rs, tar2.rs).  decode_tar is an iterator over the  *)
(* slice `d`; here buf is the archive, cur is `d`, node holds the items    *)
(* yielded so far (<<file>> for Some(file), <<>> for None), and one step   *)
(* is one call of the iterator's next().                                   *)

BLOCK_BYTES == 512
END_MARKER == [i \in 1..(BLOCK_BYTES * 2) |-> 0]

\* most files of a generated archive
MaxFiles == 2
\* most items taken from the iterator
MaxItems == 4

\* tar::take(d, n)
tar_take(c, n) ==
    IF n > c.len THEN [res |-> "none", out |-> NoBytes, d |-> c]
    ELSE [res |-> "some", out |-> [c EXCEPT !.len = n],
          d |-> [c EXCEPT !.off = c.off + n, !.len = c.len - n]]

\* s.trim_matches(' ')
trim(s) ==
    The({IF k = {} THEN <<>>
         ELSE SubSeq(s, CHOOSE lo \in k : \A j \in k : lo <= j,
                        CHOOSE hi \in k : \A j \in k : j <= hi)
         : k \in {{i \in 1..Len(s) : s[i] # 32}}})

\* whether b is a continuation byte 80..BF
Cont(x) == x \in 128..191

\* the length of the sequence a byte begins: 0 for a byte that begins none
Utf8Len(x) ==
    IF x < 128 THEN 1
    ELSE IF x \in 194..223 THEN 2
    ELSE IF x \in 224..239 THEN 3
    ELSE IF x \in 240..244 THEN 4
    ELSE 0

\* the second bytes allowed after the first byte x of a sequence
Utf8Second(x) ==
    CASE x = 224 -> 160..191
      [] x = 237 -> 128..159
      [] x = 240 -> 144..191
      [] x = 244 -> 128..143
      [] OTHER -> 128..191

\* core::str::from_utf8(s).is_ok(): every byte begins a well-formed
\* sequence or continues the sequence begun up to three bytes before it
Utf8Valid(s) ==
    \A i \in 1..Len(s) :
        IF Utf8Len(s[i]) = 0
        THEN /\ Cont(s[i])
             /\ \E k \in 1..3 : i - k >= 1 /\ Utf8Len(s[i - k]) > k
        ELSE /\ i + Utf8Len(s[i]) - 1 <= Len(s)
             /\ Utf8Len(s[i]) > 1 => s[i + 1] \in Utf8Second(s[i])
             /\ \A j \in 2..(Utf8Len(s[i]) - 1) : Cont(s[i + j])

\* utf8(s): the bytes before the first NUL, from_utf8(..).unwrap()
utf8(c) ==
    The({IF Utf8Valid(Content(u)) THEN [res |-> "ok", s |-> u]
         ELSE [res |-> "panic", s |-> u]
         : u \in {The({IF z = {} THEN c
                       ELSE [c EXCEPT !.len =
                               (CHOOSE i \in z : \A j \in z : i <= j) - 1]
                       : z \in {{i \in 1..c.len : buf[c.off + i] = 0}}})}})

RECURSIVE OctValue(_)
OctValue(s) ==
    IF s = <<>> THEN 0
    ELSE 8 * OctValue(SubSeq(s, 1, Len(s) - 1)) + (s[Len(s)] - 48)

\* uN::from_str_radix(s, 8): a `+` may precede the digits.  The fields are
\* at most 2, 8 and 12 bytes long, too short to overflow u8, u32 and u64.
from_str_radix(s) ==
    IF s = <<>> \/ s = <<43>> \/ s = <<45>> THEN [res |-> "err", n |-> 0]
    ELSE The({IF \A i \in 1..Len(g) : g[i] \in 48..55
              THEN [res |-> "ok", n |-> OctValue(g)]
              ELSE [res |-> "err", n |-> 0]
              : g \in {IF s[1] = 43 THEN Tail(s) ELSE s}})

\* the closure `padding` of decode_file
padding(pos) == BLOCK_BYTES - (pos % BLOCK_BYTES)

\* A run of field initialisers is a record t = [d, res, f]: the slice, "ok"
\* or how the run ended ("none" for a `?` on None, "panic" for an unwrap),
\* and the fields bound so far.
TarRun(c) == [d |-> c, res |-> "ok", f |-> [k \in {} |-> 0]]

\* field: utf8(take(d, n)?)
TStr(t, field, n) ==
    IF t.res # "ok" THEN t
    ELSE The({IF r.res = "none" THEN [t EXCEPT !.res = "none"]
              ELSE The({IF u.res = "panic"
                        THEN [t EXCEPT !.res = "panic", !.d = r.d]
                        ELSE [t EXCEPT !.d = r.d, !.f = (field :> u.s) @@ t.f]
                        : u \in {utf8(r.out)}})
              : r \in {tar_take(t.d, n)}})

\* field: oct(utf8(take(d, n)?)) with oct = |s| (s, from_str_radix(trim(s), 8).unwrap())
TOct(t, field, n) ==
    IF t.res # "ok" THEN t
    ELSE The({IF r.res = "none" THEN [t EXCEPT !.res = "none"]
              ELSE The({IF u.res = "panic"
                        THEN [t EXCEPT !.res = "panic", !.d = r.d]
                        ELSE The({IF v.res = "err"
                                  THEN [t EXCEPT !.res = "panic", !.d = r.d]
                                  ELSE [t EXCEPT !.d = r.d, !.f =
                                          (field :> [s |-> u.s, n |-> v.n]) @@ t.f]
                                  : v \in {from_str_radix(trim(Content(u.s)))}})
                        : u \in {utf8(r.out)}})
              : r \in {tar_take(t.d, n)}})

USTAR_MAGIC == <<117, 115, 116, 97, 114, 0>>

\* decode_ustar(d): res is "ok" for Some(UStar), "none" for None
decode_ustar(c) ==
    The({IF m.res = "none" THEN [d |-> c, res |-> "none", f |-> TarRun(c).f]
         ELSE IF Content(m.out) # USTAR_MAGIC
         THEN [d |-> m.d, res |-> "none", f |-> TarRun(c).f]
         ELSE TStr(TOct(TOct(TStr(TStr(TOct(
                  [d |-> m.d, res |-> "ok", f |-> ("magic" :> utf8(m.out).s)],
                  "version", 2), "uname", 32), "gname", 32),
                  "devmajor", 8), "devminor", 8), "prefix", 155)
         : m \in {tar_take(c, 6)}})

\* the fields of Header before `ustar`
decode_header(c) ==
    TStr(TStr(TOct(TOct(TOct(TOct(TOct(TOct(TStr(TarRun(c),
        "name", 100), "mode", 8), "uid", 8), "gid", 8), "size", 12),
        "mtime", 12), "chksum", 8), "typeflag", 1), "linkname", 100)

NoFile == [src |-> NoBytes, header |-> TarRun(NoBytes).f, data |-> NoBytes]

\* decode_file(d): res is "some", "none" or "panic"; d is the slice afterwards
decode_file(c) ==
    The({IF h.res # "ok" THEN [res |-> h.res, d |-> h.d, file |-> NoFile]
         ELSE The({
            IF u.res = "panic" THEN [res |-> "panic", d |-> u.d, file |-> NoFile]
            ELSE The({
               IF p.res = "none" THEN [res |-> "none", d |-> u.d, file |-> NoFile]
               ELSE The({
                  IF data.res = "none"
                  THEN [res |-> "none", d |-> p.d, file |-> NoFile]
                  ELSE The({
                     IF q.res = "none"
                     THEN [res |-> "none", d |-> data.d, file |-> NoFile]
                     ELSE [res |-> "some", d |-> q.d,
                           file |-> [src |-> [c EXCEPT !.len =
                                        BLOCK_BYTES + h.f["size"].n
                                        + padding(h.f["size"].n)],
                                     header |->
                                        ("ustar" :> IF u.res = "ok"
                                                    THEN <<u.f>> ELSE <<>>)
                                        @@ h.f,
                                     data |-> data.out]]
                     : q \in {tar_take(data.d, padding(h.f["size"].n))}})
                  : data \in {tar_take(p.d, h.f["size"].n)}})
               : p \in {tar_take(u.d, padding(u.d.off - c.off))}})
            : u \in {decode_ustar(h.d)}})
         : h \in {decode_header(c)}})

\* the archives: files of one header block, size data bytes and zero padding
\* up to the block boundary, then the end marker
Zeros(n) == [i \in 1..n |-> 0]
Padded(s, n) == s \o Zeros(n - Len(s))
RoundUp(n) == ((n + BLOCK_BYTES - 1) \div BLOCK_BYTES) * BLOCK_BYTES

\* n as width - 1 octal digits and a NUL
OctText(n, width) ==
    [i \in 1..(width - 1) |-> 48 + ((n \div 8^(width - 1 - i)) % 8)] \o <<0>>

TarFile(name, size, ustar) == [name |-> name, size |-> size, ustar |-> ustar]

TarHeader(f) ==
    Padded(Padded(f.name, 100) \o OctText(420, 8) \o OctText(0, 8)
           \o OctText(0, 8) \o OctText(f.size, 12) \o OctText(0, 12)
           \o OctText(0, 8) \o <<48>> \o Zeros(100)
           \o (IF f.ustar
               THEN USTAR_MAGIC \o <<48, 48>> \o Padded(<<117>>, 32)
                    \o Padded(<<103>>, 32) \o OctText(0, 8) \o OctText(0, 8)
                    \o Zeros(155)
               ELSE <<>>),
           BLOCK_BYTES)

TarData(f) == Padded([i \in 1..f.size |-> 97 + (i % 3)], RoundUp(f.size))

TarArchive(fs) ==
    Flatten([i \in 1..Len(fs) |-> TarHeader(fs[i]) \o TarData(fs[i])])
    \o END_MARKER

TarSizes == {0, 3, BLOCK_BYTES}

TarFiles == {TarFile(<<97>>, s, u) : s \in TarSizes, u \in BOOLEAN}

TarFileLists == UNION {[1..n -> TarFiles] : n \in 0..MaxFiles}

\* the well-formed archives, and archives that are cut short, lack the end
\* marker or hold a field that is not octal text
TarInputs ==
    {TarArchive(fs) : fs \in TarFileLists}
    \cup {SubSeq(TarArchive(<<TarFile(<<97>>, 3, TRUE)>>), 1, k) :
             k \in {0, 50, 300, 505, BLOCK_BYTES, 514, 2 * BLOCK_BYTES,
                    3 * BLOCK_BYTES}}
    \cup {[TarArchive(<<TarFile(<<97>>, 3, u)>>) EXCEPT ![i] = x] :
             u \in BOOLEAN, i \in {1, 101, 125, 264}, x \in {56, 200}}

InitTar ==
    /\ buf \in TarInputs
    /\ pc = "tar"
    /\ cur = Bytes(0, Len(buf))
    /\ node = <<>>
    /\ last = NoLast
    /\ ZipIdle

\* one call of next() on decode_tar(&mut d):
\* (!d.starts_with(&END_MARKER) && !d.is_empty()).then(|| decode_file(d))
TarNext ==
    /\ pc = "tar"
    /\ Len(node) < MaxItems
    /\ IF ~starts_with(cur, END_MARKER) /\ cur.len # 0
       THEN \E r \in {decode_file(cur)} :
               /\ cur' = r.d
               /\ node' = IF r.res = "panic" THEN node
                          ELSE Append(node, IF r.res = "some" THEN <<r.file>>
                                            ELSE <<>>)
               /\ pc' = IF r.res = "panic" THEN "tar_panic" ELSE "tar"
       ELSE /\ pc' = "tar_done"
            /\ UNCHANGED <<cur, node>>
    /\ UNCHANGED <<buf, last, zipVars>>

NextTar == TarNext

SpecTar == InitTar /\ [][NextTar]_vars

\* the offset at which file i of the archive fs starts
RECURSIVE TarOffset(_, _)
TarOffset(fs, i) ==
    IF i = 1 THEN 0
    ELSE TarOffset(fs, i - 1) + BLOCK_BYTES + RoundUp(fs[i - 1].size)

\* C15: on a well-formed archive of k files followed by two zero blocks,
\* decode_tar does not panic, yields only files, file i being the archive's
\* file i: its data is exactly the size bytes after its header block and its
\* extent is the header block plus the data rounded up to a block; the
\* slice is then at the next file's header; and the iterator ends after
\* exactly k files.
TarWalk ==
    \A fs \in TarFileLists :
        (Len(buf) = TarOffset(fs, Len(fs) + 1) + 2 * BLOCK_BYTES
         /\ buf = TarArchive(fs)) =>
            /\ pc # "tar_panic"
            /\ Len(node) <= Len(fs)
            /\ \A i \in 1..Len(node) :
                  /\ node[i] # <<>>
                  /\ node[i][1].header["size"].n = fs[i].size
                  /\ node[i][1].data
                        = Bytes(TarOffset(fs, i) + BLOCK_BYTES, fs[i].size)
                  /\ node[i][1].src
                        = Bytes(TarOffset(fs, i),
                                BLOCK_BYTES + RoundUp(fs[i].size))
            /\ cur.off = TarOffset(fs, Len(node) + 1)
            /\ cur.off % BLOCK_BYTES = 0
            /\ pc = "tar_done" => Len(node) = Len(fs)

====
